---- MODULE Spec2Model ----
(***************************************************************************)
(* Strike & orientation compliance engine of the Scientific Department bot *)
(* (src/main.py): the strike ledger, the weekly quota evaluator with its   *)
(* reset, the session webhook that feeds the time counter, and the         *)
(* orientation deadline machine.                                           *)
(*                                                                         *)
(* Time is the UTC clock in whole seconds since a Monday 00:00 that opens  *)
(* ISO week 1.  Handlers run on one asyncio loop, so a handler is atomic   *)
(* between two awaits; the long-running jobs (weekly evaluator,            *)
(* orientation poll) are cut at the awaits where other handlers can run.   *)
(* Discord sends that the code does not guard (log_action, the report)     *)
(* are modelled as succeeding; the guarded ones (DMs) have no effect on    *)
(* stored state either way.                                                *)
(***************************************************************************)
EXTENDS Integers, Sequences, FiniteSets, TLC

\* ------------------------------------------------------------------------
\* Bounds of the model
\* ------------------------------------------------------------------------
MaxStrikes == 4
MaxTasks == 3
MaxCount == 2
MaxRuns == 2
MaxGrants == 2
MaxExtraDays == 1
MaxRepeats == 1
MaxLogs == 4

\* ------------------------------------------------------------------------
\* Program constants
\* ------------------------------------------------------------------------
WEEKLY_REQUIREMENT == 3
WEEKLY_TIME_REQUIREMENT == 45
STRIKE_DAYS == 90
STRIKE_LIMIT == 3
RESET_WEEKDAY == 6
ORIENTATION_DAYS == 14

\* Accounts known to the guild; "bot" is a bot account.
Members == {"m1", "m2", "bot"}
Bots == {"bot"}
\* External (Roblox) ids that can appear in a webhook; "r9" is linked to nobody.
RobloxIds == {"r1", "r2", "r9"}

\* datetime.timedelta(days, hours, minutes, seconds) in seconds
timedelta(d, h, m, s) == ((d * 24 + h) * 60 + m) * 60 + s

\* datetime.weekday(): Monday = 0 .. Sunday = 6
weekday(t) == (t \div timedelta(1, 0, 0, 0)) % 7

\* week_key(): the ISO week number of t (one ISO year is modelled)
week_key(t) == (t \div timedelta(7, 0, 0, 0)) + 1

\* Python's None / Optional values are sequences of length 0 or 1
None == <<>>
Some(x) == <<x>>

EmptyTable == [k \in {} |-> 0]
Upsert(f, k, v) == [x \in (DOMAIN f) \cup {k} |-> IF x = k THEN v ELSE f[x]]
DeleteKey(f, k) == [x \in (DOMAIN f) \ {k} |-> f[x]]

VARIABLES
    now,                \* utcnow()
    guild,              \* members currently in the guild (find_member / get_member succeed)
    strikes,            \* table strikes: a set of rows
    strike_seq,         \* strikes.strike_id SERIAL: ids handed out so far
    enforce_count,      \* per member, invocations of enforce_three_strikes so far
    weekly_tasks,       \* table weekly_tasks: member_id -> tasks_completed
    roblox_time,        \* table roblox_time: member_id -> time_spent (seconds)
    roblox_sessions,    \* table roblox_sessions: roblox_id -> start_time
    activity_excuses,   \* table activity_excuses: week_key -> row (reason, set_by)
    wpc,                \* check_weekly_tasks: "idle", "report", "strikes"
    w_run,              \* runs of check_weekly_tasks that passed the day gate
    w_wk,               \* its local wk
    w_excused,          \* its local excused_reason (None or Some(reason))
    w_row,              \* whether it found an activity_excuses row for its week
    w_met,              \* its local met: set of [member, sc]
    w_not_met,          \* its local not_met: set of [member, tasks, mins, sc]
    w_zero,             \* its local zero: set of [member, sc]
    w_queue,            \* members its strike loop has not reached yet
    w_issued,           \* strike rows this run inserted
    next_tick,          \* day on which tasks.loop fires check_weekly_tasks next
    reset_weeks,        \* ISO weeks whose tick led to the TRUNCATE
    reset_dropped,      \* external ids whose open session the latest TRUNCATE deleted
    task_logs,          \* per member, the rows of task_logs in insertion order
    weekly_task_logs,   \* per member, the rows of weekly_task_logs in insertion order
    log_last,           \* what the latest /removelastlog did
    call_pc,            \* issue_strike calls in flight: where each caller's call stands
    call_active,        \* the active count each call in flight has read
    web_last,           \* the answer of POST /roblox when it is the step just taken
    ext_last,           \* the reply of /extendorientation when it is the step just taken
    removal,            \* the try_remove_from_roblox call in flight, step by step
    w_failed,           \* members whose turn in its strike loop ended in the except clause
    w_enforced,         \* members this run called enforce_three_strikes on
    w_report,           \* the report this run posted (<<>> before it is posted)
    orientations,       \* table orientations: discord_id -> row
    trainee,            \* members holding SCIENTIFIC_TRAINEE_ROLE_ID
    role_grants,        \* per member, the instants of the role-grant events on_member_update saw
    warn_count,         \* per member, 5-day reminders sent to the alert channel
    expiry_count,       \* per member, expiry enforcements performed
    opc,                \* orientation_reminder_loop: "idle" or "loop"
    o_now,              \* its local now
    o_alert,            \* whether it found the alert channel
    o_rows,             \* the rows it fetched and has not examined yet
    o_done,             \* the rows it has examined
    rm_last,            \* output of the step just taken, if it was a /strikes_remove:
                        \* member, count, rows deleted, reply (None otherwise)
    enf_last            \* output of the step just taken, if it ran enforce_three_strikes:
                        \* member and what the call did (None otherwise)

clockVars == <<now>>
ledgerVars == <<strikes, strike_seq, enforce_count>>
counterVars == <<weekly_tasks, roblox_time, roblox_sessions>>
weeklyVars == <<wpc, w_run, w_wk, w_excused, w_row, w_met, w_not_met, w_zero, w_queue,
                w_issued, w_failed, w_enforced, w_report, next_tick, reset_weeks,
                reset_dropped>>
orientVars == <<orientations, trainee, role_grants, warn_count, expiry_count,
                opc, o_now, o_alert, o_rows, o_done>>
callVars == <<call_pc, call_active, removal>>
logVars == <<task_logs, weekly_task_logs, log_last>>
replyVars == <<rm_last, enf_last, ext_last, web_last>>
pollVars == <<trainee, role_grants, warn_count, expiry_count, opc, o_now, o_alert, o_rows, o_done>>
vars == <<now, guild, strikes, strike_seq, enforce_count, weekly_tasks, roblox_time,
          roblox_sessions, activity_excuses, wpc, w_run, w_wk, w_excused, w_row, w_met,
          w_not_met, w_zero, w_queue, w_issued, w_failed, w_enforced, w_report,
          next_tick, reset_weeks, reset_dropped, call_pc, call_active, removal,
          orientations, trainee, role_grants, warn_count, expiry_count,
          opc, o_now, o_alert, o_rows, o_done, rm_last, enf_last, ext_last,
          web_last, task_logs, weekly_task_logs, log_last>>

\* Holders of DEPARTMENT_ROLE_ID, and the verified links discord_id -> roblox_id
DeptRole == {"m1", "m2", "bot"}
roblox_verification == [m \in {"m1", "m2"} |-> IF m = "m1" THEN "r1" ELSE "r2"]

\* ------------------------------------------------------------------------
\* Strike ledger
\* ------------------------------------------------------------------------

\* SELECT ... FROM strikes WHERE member_id=$1 AND expires_at > $2
ActiveRows(tbl, m, t) == {r \in tbl : r.member = m /\ r.expires_at > t}

\* SELECT COUNT(*) FROM strikes WHERE member_id=$1 AND expires_at > $2
ActiveCount(tbl, m, t) == Cardinality(ActiveRows(tbl, m, t))

\* SELECT COUNT(*) FROM strikes WHERE member_id=$1
TotalCount(tbl, m) == Cardinality({r \in tbl : r.member = m})

\* The row issue_strike inserts
NewStrike(id, m, reason, set_by, auto, t) ==
    [id |-> id, member |-> m, reason |-> reason, issued_at |-> t,
     expires_at |-> t + timedelta(STRIKE_DAYS, 0, 0, 0), set_by |-> set_by, auto |-> auto]

\* issue_strike: the table after its INSERT
issue_strike(tbl, id, m, reason, set_by, auto, t) ==
    tbl \cup {NewStrike(id, m, reason, set_by, auto, t)}

issue_strike_active_before(tbl, id, m, reason, set_by, auto, t) == ActiveCount(tbl, m, t)

\* issue_strike: the active count it returns (read after the insert, at the same now)
issue_strike_active(tbl, id, m, reason, set_by, auto, t) ==
    ActiveCount(issue_strike(tbl, id, m, reason, set_by, auto, t), m, t)

MustEnforce_early(active_after) == active_after >= STRIKE_LIMIT - 1

MustEnforce_above(active_after) == active_after > STRIKE_LIMIT

\* The callers' gate: enforce_three_strikes runs when the returned count reaches the limit
MustEnforce(active_after) == active_after >= STRIKE_LIMIT

\* enforce_three_strikes: DM (swallowed), external removal (a boolean), kick.
\* Only the kick changes state the engine reads: a kicked member leaves the guild.
enforce_three_strikes(g, m, kick_ok) == IF kick_ok /\ m \in g THEN g \ {m} ELSE g

\* The tables a handler may write, as one value
Stores(st, wt, rt, rs, ori) ==
    [strikes |-> st, weekly_tasks |-> wt, roblox_time |-> rt, roblox_sessions |-> rs,
     orientations |-> ori]

\* The tables become s
Store(s) ==
    /\ strikes' = s.strikes
    /\ weekly_tasks' = s.weekly_tasks
    /\ roblox_time' = s.roblox_time
    /\ roblox_sessions' = s.roblox_sessions
    /\ orientations' = s.orientations

enforce_three_strikes_wipes(s, m) == [s EXCEPT !.strikes = {r \in @ : r.member # m}]

\* enforce_three_strikes on the tables: it executes no statement that writes
enforce_three_strikes_stored(s, m) == s

enforce_three_strikes_calls_dm_unguarded(dm_ok, roblox_ok, kick_ok) ==
    IF dm_ok
    THEN [calls |-> <<"send", "try_remove_from_roblox", "kick", "log_action">>,
          notice |-> dm_ok, roblox_removed |-> roblox_ok, kicked |-> kick_ok, raised |-> FALSE,
          log |-> Some([roblox_removed |-> roblox_ok, kicked |-> kick_ok])]
    ELSE [calls |-> <<"send">>, notice |-> FALSE, roblox_removed |-> FALSE, kicked |-> FALSE,
          raised |-> TRUE, log |-> None]

\* enforce_three_strikes, call by call: the DM inside try/except: pass, the external
\* removal (returns a boolean), the kick inside try/except, then log_action with both
\* outcomes.  dm_ok, roblox_ok, kick_ok say whether each call succeeds.
enforce_three_strikes_calls(dm_ok, roblox_ok, kick_ok) ==
    LET after_dm == <<"send">>
        roblox_removed == roblox_ok
        after_roblox == Append(after_dm, "try_remove_from_roblox")
        kicked == kick_ok
        after_kick == Append(after_roblox, "kick")
    IN [calls |-> Append(after_kick, "log_action"),
        notice |-> dm_ok, roblox_removed |-> roblox_removed, kicked |-> kicked,
        raised |-> FALSE,
        log |-> Some([roblox_removed |-> roblox_removed, kicked |-> kicked])]

\* Two managers whose /strikes_add commands are handled at the same time
Callers == {"a", "b"}

\* /strikes_add by c, up to the INSERT of issue_strike having been executed
CallInsert(c, m) ==
    /\ call_pc[c] = "idle"
    /\ m \in guild
    /\ strike_seq < MaxStrikes
    /\ strike_seq' = strike_seq + 1
    /\ strikes' = issue_strike(strikes, strike_seq + 1, m, "manual", "mgmt", FALSE, now)
    /\ call_pc' = [call_pc EXCEPT ![c] = "inserted"]
    /\ rm_last' = None /\ enf_last' = None /\ ext_last' = None
    /\ web_last' = None
    /\ UNCHANGED logVars
    /\ UNCHANGED <<orientVars, clockVars, guild, enforce_count, counterVars, activity_excuses,
                   weeklyVars, call_active, removal>>

\* The SELECT COUNT(*) of c's issue_strike, the statement after its INSERT
CallCount(c, m) ==
    /\ call_pc[c] = "inserted"
    /\ call_active' = [call_active EXCEPT ![c] = ActiveCount(strikes, m, now)]
    /\ call_pc' = [call_pc EXCEPT ![c] = "counted"]
    /\ rm_last' = None /\ enf_last' = None /\ ext_last' = None
    /\ web_last' = None
    /\ UNCHANGED logVars
    /\ UNCHANGED <<orientVars, clockVars, guild, ledgerVars, counterVars, activity_excuses,
                   weeklyVars, removal>>

\* issue_strike returns to c's /strikes_add, which enforces when the count it got
\* reaches the limit
CallReturn(c, m, kick_ok) ==
    /\ call_pc[c] = "counted"
    /\ call_pc' = [call_pc EXCEPT ![c] = "idle"]
    /\ call_active' = [call_active EXCEPT ![c] = 0]
    /\ IF MustEnforce(call_active[c])
       THEN \E dm_ok \in BOOLEAN, roblox_ok \in BOOLEAN :
              LET run == enforce_three_strikes_calls(dm_ok, roblox_ok, kick_ok)
              IN /\ guild' = enforce_three_strikes(guild, m, run.kicked)
                 /\ enforce_count' = [enforce_count EXCEPT ![m] = @ + 1]
                 /\ enf_last' = Some([member |-> m, run |-> run])
       ELSE /\ UNCHANGED <<guild, enforce_count>>
            /\ enf_last' = None
    /\ rm_last' = None /\ ext_last' = None
    /\ web_last' = None
    /\ UNCHANGED logVars
    /\ UNCHANGED <<orientVars, clockVars, strikes, strike_seq, counterVars, activity_excuses,
                   weeklyVars, removal>>

\* /strikes_add
strikes_add(m, reason, kick_ok) ==
    /\ m \in guild
    /\ strike_seq < MaxStrikes
    /\ LET id == strike_seq + 1
           active_after == issue_strike_active(strikes, id, m, reason, "mgmt", FALSE, now)
           issued == Stores(issue_strike(strikes, id, m, reason, "mgmt", FALSE, now),
                            weekly_tasks, roblox_time, roblox_sessions, orientations)
       IN /\ strike_seq' = id
          /\ IF MustEnforce(active_after)
             THEN \E dm_ok \in BOOLEAN, roblox_ok \in BOOLEAN :
                    LET run == enforce_three_strikes_calls(dm_ok, roblox_ok, kick_ok)
                    IN /\ guild' = enforce_three_strikes(guild, m, run.kicked)
                       /\ enforce_count' = [enforce_count EXCEPT ![m] = @ + 1]
                       /\ enf_last' = Some([member |-> m, run |-> run])
                       /\ Store(enforce_three_strikes_stored(issued, m))
             ELSE /\ guild' = guild
                  /\ enforce_count' = enforce_count
                  /\ enf_last' = None
                  /\ Store(issued)
    /\ rm_last' = None /\ ext_last' = None
    /\ web_last' = None
    /\ UNCHANGED callVars
    /\ UNCHANGED logVars
    /\ UNCHANGED <<pollVars, clockVars, activity_excuses, weeklyVars>>

strikes_remove_rows_all(tbl, m, count, t) == {ActiveRows(tbl, m, t)}

strikes_remove_rows_latest(tbl, m, count, t) ==
    LET act == ActiveRows(tbl, m, t)
        n == IF count < Cardinality(act) THEN count ELSE Cardinality(act)
    IN {S \in SUBSET act :
           /\ Cardinality(S) = n
           /\ \A a \in S, b \in act \ S : a.expires_at >= b.expires_at}

strikes_remove_rows_any(tbl, m, count, t) ==
    LET act == {r \in tbl : r.member = m}
        n == IF count < Cardinality(act) THEN count ELSE Cardinality(act)
    IN {S \in SUBSET act :
           /\ Cardinality(S) = n
           /\ \A a \in S, b \in act \ S : a.expires_at <= b.expires_at}

\* SELECT strike_id ... WHERE member_id=$1 AND expires_at > $2 ORDER BY expires_at ASC LIMIT $3:
\* every result the store may return (rows with equal expires_at come in any order)
strikes_remove_rows(tbl, m, count, t) ==
    LET act == ActiveRows(tbl, m, t)
        n == IF count < Cardinality(act) THEN count ELSE Cardinality(act)
    IN {S \in SUBSET act :
           /\ Cardinality(S) = n
           /\ \A a \in S, b \in act \ S : a.expires_at <= b.expires_at}

\* /strikes_remove: what it tells the caller, rows being the rows it selected.
\* None stands for "has no active strikes".
strikes_remove_reply(tbl, rows, m, t) ==
    IF rows = {} THEN None
    ELSE Some([removed |-> Cardinality(rows), remaining |-> ActiveCount(tbl \ rows, m, t)])

\* /strikes_remove
strikes_remove(m, count) ==
    /\ m \in guild
    /\ \E rows \in strikes_remove_rows(strikes, m, count, now) :
         /\ strikes' = strikes \ rows
         /\ rm_last' = Some([member |-> m, count |-> count, rows |-> rows,
                             reply |-> strikes_remove_reply(strikes, rows, m, now)])
    /\ enf_last' = None /\ ext_last' = None
    /\ web_last' = None
    /\ UNCHANGED callVars
    /\ UNCHANGED logVars
    /\ UNCHANGED <<orientVars, clockVars, guild, strike_seq, enforce_count, counterVars,
                   activity_excuses, weeklyVars>>

\* /strikes_view: <<active shown, total shown>>
strikes_view(tbl, m, t) == <<Cardinality(ActiveRows(tbl, m, t)), TotalCount(tbl, m)>>

\* ------------------------------------------------------------------------
\* The clock: utcnow() moves forward to a later instant of the modelled calendar
\* ------------------------------------------------------------------------
Advance(t) ==
    /\ t > now
    /\ now' = t
    /\ rm_last' = None /\ enf_last' = None /\ ext_last' = None
    /\ web_last' = None
    /\ UNCHANGED callVars
    /\ UNCHANGED logVars
    /\ UNCHANGED <<orientVars, guild, ledgerVars, counterVars, activity_excuses, weeklyVars>>

\* A member leaves the guild on their own
Leave(m) ==
    /\ m \in guild
    /\ guild' = guild \ {m}
    /\ rm_last' = None /\ enf_last' = None /\ ext_last' = None
    /\ web_last' = None
    /\ UNCHANGED callVars
    /\ UNCHANGED logVars
    /\ UNCHANGED <<orientVars, clockVars, ledgerVars, counterVars, activity_excuses, weeklyVars>>

\* ------------------------------------------------------------------------
\* Task logging, the session webhook, the excuse command
\* ------------------------------------------------------------------------

\* The stored counter of k, 0 when k has no row
GetCount(f, k) == IF k \in DOMAIN f THEN f[k] ELSE 0

\* INSERT ... ON CONFLICT (member_id) DO UPDATE SET col = col + n
UpsertAdd(f, k, n) == Upsert(f, k, IF k \in DOMAIN f THEN f[k] + n ELSE n)

\* The task types of /log and /addtask, and those whose logs are numbered
TASK_TYPES == {"Cross-Testing", "Anomaly Testing", "SCP Interviews",
               "Scientific Department Recruitment", "SCP Presentations"}
TEST_TYPES == {"Cross-Testing", "Anomaly Testing"}

CountOfType_any(rows, task_type) == Len(rows)

\* SELECT COUNT(*) FROM task_logs WHERE member_id=$1 AND task_type=$2, on the member's rows
CountOfType(rows, task_type) ==
    Cardinality({i \in 1..Len(rows) : rows[i].task_type = task_type})

\* seq_no / start_n + i: the number of the i-th new row, None for a type that is not numbered
sequence_no(rows, task_type, i) ==
    IF task_type \in TEST_TYPES THEN Some(CountOfType(rows, task_type) + i) ELSE None

\* rows_to_insert: count rows of one type, numbered on from the permanent log
rows_to_insert(rows, task_type, count) ==
    [i \in 1..count |-> [task_type |-> task_type, sequence_no |-> sequence_no(rows, task_type, i)]]

\* The rows as weekly_task_logs stores them: timestamp is the rank of the command's utcnow()
\* among the member's weekly rows (one value for all the rows of one command)
Stamped(rows, stamp) ==
    [i \in 1..Len(rows) |-> [task_type |-> rows[i].task_type,
                              sequence_no |-> rows[i].sequence_no, timestamp |-> stamp]]

\* /log (LogTaskForm.on_submit): one row in task_logs and in weekly_task_logs, and the
\* weekly counter, in one transaction
on_submit(m, task_type) ==
    /\ m \in guild
    /\ (m \in DOMAIN weekly_tasks => weekly_tasks[m] < MaxTasks)
    /\ LET rows == rows_to_insert(task_logs[m], task_type, 1)
       IN /\ task_logs' = [task_logs EXCEPT ![m] = @ \o rows]
          /\ weekly_task_logs' =
                [weekly_task_logs EXCEPT ![m] = @ \o Stamped(rows, Len(@) + 1)]
    /\ weekly_tasks' = UpsertAdd(weekly_tasks, m, 1)
    /\ rm_last' = None /\ enf_last' = None /\ ext_last' = None
    /\ web_last' = None
    /\ UNCHANGED callVars
    /\ UNCHANGED log_last
    /\ UNCHANGED <<orientVars, clockVars, guild, ledgerVars, roblox_time, roblox_sessions,
                   activity_excuses, weeklyVars>>

\* /log of a task type that is not numbered
LogTask(m) == on_submit(m, "SCP Interviews")

\* /addtask: count rows of one type in task_logs and in weekly_task_logs, and count on the
\* weekly counter, in one transaction
addtask(m, task_type, count) ==
    /\ m \in guild
    /\ GetCount(weekly_tasks, m) + count <= MaxTasks
    /\ LET rows == rows_to_insert(task_logs[m], task_type, count)
       IN /\ task_logs' = [task_logs EXCEPT ![m] = @ \o rows]
          /\ weekly_task_logs' =
                [weekly_task_logs EXCEPT ![m] = @ \o Stamped(rows, Len(@) + 1)]
    /\ weekly_tasks' = UpsertAdd(weekly_tasks, m, count)
    /\ rm_last' = None /\ enf_last' = None /\ ext_last' = None
    /\ web_last' = None
    /\ UNCHANGED callVars
    /\ UNCHANGED log_last
    /\ UNCHANGED <<orientVars, clockVars, guild, ledgerVars, roblox_time, roblox_sessions,
                   activity_excuses, weeklyVars>>

\* ORDER BY timestamp DESC LIMIT 1: the positions of the rows with the latest timestamp
LastLogs(rows) ==
    {i \in 1..Len(rows) : \A j \in 1..Len(rows) : rows[j].timestamp <= rows[i].timestamp}

\* DELETE FROM weekly_task_logs WHERE log_id = $1, for the row at position i
DeleteAt(rows, i) == SubSeq(rows, 1, i - 1) \o SubSeq(rows, i + 1, Len(rows))

tasks_after_removal_same(tasks_completed) == tasks_completed

\* GREATEST(tasks_completed - 1, 0)
tasks_after_removal(tasks_completed) ==
    IF tasks_completed - 1 > 0 THEN tasks_completed - 1 ELSE 0

\* UPDATE weekly_tasks SET tasks_completed = ... WHERE member_id = $1
UpdateCounter(wt, m) ==
    IF m \in DOMAIN wt THEN [wt EXCEPT ![m] = tasks_after_removal(@)] ELSE wt

\* /removelastlog: with no weekly row for the member it answers and returns; otherwise it
\* deletes the latest weekly row and lowers the counter.  task_logs is not written
removelastlog(m) ==
    /\ m \in guild
    /\ IF weekly_task_logs[m] = <<>>
       THEN /\ log_last' = Some([member |-> m, reply |-> "no_logs", removed |-> None])
            /\ UNCHANGED <<weekly_task_logs, weekly_tasks>>
       ELSE \E i \in LastLogs(weekly_task_logs[m]) :
            /\ log_last' = Some([member |-> m, reply |-> "removed",
                                  removed |-> Some(weekly_task_logs[m][i])])
            /\ weekly_task_logs' = [weekly_task_logs EXCEPT ![m] = DeleteAt(@, i)]
            /\ weekly_tasks' = UpdateCounter(weekly_tasks, m)
    /\ rm_last' = None /\ enf_last' = None /\ ext_last' = None
    /\ web_last' = None
    /\ UNCHANGED callVars
    /\ UNCHANGED task_logs
    /\ UNCHANGED <<orientVars, clockVars, guild, ledgerVars, roblox_time, roblox_sessions,
                   activity_excuses, weeklyVars>>

\* SELECT discord_id FROM roblox_verification WHERE roblox_id = $1
DiscordIdOf(rid) ==
    IF \E m \in DOMAIN roblox_verification : roblox_verification[m] = rid
    THEN Some(CHOOSE m \in DOMAIN roblox_verification : roblox_verification[m] = rid)
    ELSE None

\* POST /roblox: the status of the answer
roblox_handler_response(key_ok) == IF key_ok THEN 200 ELSE 401

roblox_handler_lookup_unchecked(key_ok, rid) == DiscordIdOf(rid)

\* POST /roblox: the discord_id it goes on with (None when it has answered 401, and when
\* the robloxId is linked to nobody)
roblox_handler_lookup(key_ok, rid) == IF key_ok THEN DiscordIdOf(rid) ELSE None

session_close_keep(sessions, rid) == sessions

\* "left" with an open session: DELETE FROM roblox_sessions WHERE roblox_id = $1
session_close(sessions, rid) == DeleteKey(sessions, rid)

\* POST /roblox
roblox_handler(key_ok, rid, status) ==
    /\ IF roblox_handler_lookup(key_ok, rid) = None
       THEN UNCHANGED <<roblox_sessions, roblox_time>>
       ELSE LET discord_id == roblox_handler_lookup(key_ok, rid)[1]
            IN CASE status = "joined" ->
                      /\ roblox_sessions' = Upsert(roblox_sessions, rid, now)
                      /\ roblox_time' = roblox_time
                 [] status = "left" /\ rid \in DOMAIN roblox_sessions ->
                      /\ roblox_sessions' = session_close(roblox_sessions, rid)
                      /\ roblox_time' = UpsertAdd(roblox_time, discord_id, now - roblox_sessions[rid])
                 [] OTHER -> UNCHANGED <<roblox_sessions, roblox_time>>
    /\ web_last' = Some([key_ok |-> key_ok, roblox_id |-> rid, status |-> status,
                         response |-> roblox_handler_response(key_ok)])
    /\ rm_last' = None /\ enf_last' = None /\ ext_last' = None
    /\ UNCHANGED callVars
    /\ UNCHANGED logVars
    /\ UNCHANGED <<orientVars, clockVars, guild, ledgerVars, weekly_tasks, activity_excuses, weeklyVars>>

\* Python truthiness of an optional string
Truthy(s) == s # None /\ s # Some("")

ReasonGiven_any(reason) == TRUE

\* /activityexcuse, action = "set": `if not reason` asks for a reason and returns
ReasonGiven(reason) == Truthy(reason)

\* A week typed by the user: the key it spells and whether it is typed in lower case
WeekText(key, lower) == [key |-> key, lower |-> lower]

\* str.upper() of a typed week: the key it spells, in the case week_key() writes
upper(text) == text.key

\* wk = (week or week_key()).upper()
excuse_week(week, t) == IF week = None THEN week_key(t) ELSE upper(week[1])

\* /activityexcuse: week and reason are Optional (None when omitted)
activityexcuse(action, week, reason) ==
    /\ LET wk == excuse_week(week, now)
       IN CASE action = "set" /\ ReasonGiven(reason) ->
                 activity_excuses' = Upsert(activity_excuses, wk,
                     [reason |-> reason, set_by |-> "mgmt"])
            [] action = "clear" ->
                 activity_excuses' = DeleteKey(activity_excuses, wk)
            [] OTHER -> activity_excuses' = activity_excuses
    /\ rm_last' = None /\ enf_last' = None /\ ext_last' = None
    /\ web_last' = None
    /\ UNCHANGED callVars
    /\ UNCHANGED logVars
    /\ UNCHANGED <<orientVars, clockVars, guild, ledgerVars, counterVars, weeklyVars>>

\* ------------------------------------------------------------------------
\* check_weekly_tasks: report, strikes, reset
\* ------------------------------------------------------------------------

Roster_with_bots(g) == DeptRole \cap g

\* dept_member_ids = {m.id for m in dept_role.members if not m.bot}
Roster(g) == {m \in DeptRole \cap g : m \notin Bots}

\* tasks_map / time_map: the rows of roster members
RosterRows(tbl, roster) == [m \in (DOMAIN tbl) \cap roster |-> tbl[m]]

\* dict.get(key, 0)
GetOr0(f, k) == IF k \in DOMAIN f THEN f[k] ELSE 0

IsMet_either(tasks_done, time_done_minutes) ==
    tasks_done >= WEEKLY_REQUIREMENT \/ time_done_minutes >= WEEKLY_TIME_REQUIREMENT

\* The quota test of the classification loop
IsMet(tasks_done, time_done_minutes) ==
    tasks_done >= WEEKLY_REQUIREMENT /\ time_done_minutes >= WEEKLY_TIME_REQUIREMENT

\* considered_ids = set(tasks_map) | set(time_map)
Considered(wt, rt, roster) == (DOMAIN RosterRows(wt, roster)) \cup (DOMAIN RosterRows(rt, roster))

\* met: (member, sc)
ClassifyMet(wt, rt, st, roster, t) ==
    {[member |-> m, sc |-> ActiveCount(st, m, t)] : m \in
        {x \in Considered(wt, rt, roster) :
            IsMet(GetOr0(RosterRows(wt, roster), x), GetOr0(RosterRows(rt, roster), x) \div 60)}}

\* not_met: (member, tasks_done, time_done_minutes, sc)
ClassifyNotMet(wt, rt, st, roster, t) ==
    {[member |-> m, tasks |-> GetOr0(RosterRows(wt, roster), m),
      mins |-> GetOr0(RosterRows(rt, roster), m) \div 60, sc |-> ActiveCount(st, m, t)] : m \in
        {x \in Considered(wt, rt, roster) :
            ~IsMet(GetOr0(RosterRows(wt, roster), x), GetOr0(RosterRows(rt, roster), x) \div 60)}}

\* zero: (member, sc) for zero_ids = dept_member_ids - considered_ids
ClassifyZero(wt, rt, st, roster, t) ==
    {[member |-> m, sc |-> ActiveCount(st, m, t)] : m \in roster \ Considered(wt, rt, roster)}

MembersOf(bucket) == {r.member : r \in bucket}

ExcuseRow_any(ex, wk) ==
    IF DOMAIN ex # {} THEN Some(ex[CHOOSE k \in DOMAIN ex : TRUE]) ELSE None

\* is_excused_row / excused_reason
ExcuseRow(ex, wk) == IF wk \in DOMAIN ex THEN Some(ex[wk]) ELSE None
ExcusedReason(ex, wk) == IF ExcuseRow(ex, wk) # None THEN ExcuseRow(ex, wk)[1].reason ELSE None

\* tasks.loop(time=04:00 UTC): one iteration per UTC day.  day_of(t) is the day of t
day_of(t) == t \div timedelta(1, 0, 0, 0)

\* The loop fires once the day of its next iteration has come
TickDue(nt, t) == day_of(t) >= nt

\* The iteration after the one fired at t is scheduled for the following day
TickAfter(t) == day_of(t) + 1

DayGate_any(t) == TRUE

\* if utcnow().weekday() != 6: return
DayGate(t) == weekday(t) = RESET_WEEKDAY

\* The daily tick on a day that is not the reset day: drop and return
WeeklySkip ==
    /\ wpc = "idle"
    /\ TickDue(next_tick, now)
    /\ ~DayGate(now)
    /\ next_tick' = TickAfter(now)
    /\ rm_last' = None /\ enf_last' = None /\ ext_last' = None
    /\ web_last' = None
    /\ UNCHANGED callVars
    /\ UNCHANGED logVars
    /\ UNCHANGED <<orientVars, clockVars, guild, ledgerVars, counterVars, activity_excuses,
                   wpc, w_run, w_wk, w_excused, w_row, w_met, w_not_met, w_zero,
                   w_queue, w_issued, w_failed, w_enforced, w_report, reset_weeks,
                   reset_dropped>>

\* The tick on the reset day, up to the report being built: excuse lookup, channel and
\* role lookup (either may fail: print and return), snapshot and classification
WeeklyBegin(chan_ok, role_ok) ==
    /\ wpc = "idle"
    /\ TickDue(next_tick, now)
    /\ DayGate(now)
    /\ w_run < MaxRuns
    /\ next_tick' = TickAfter(now)
    /\ w_run' = w_run + 1
    /\ IF ~chan_ok \/ ~role_ok
       THEN UNCHANGED <<wpc, w_wk, w_excused, w_row, w_met, w_not_met, w_zero>>
       ELSE /\ wpc' = "report"
            /\ w_wk' = week_key(now)
            /\ w_excused' = ExcusedReason(activity_excuses, week_key(now))
            /\ w_row' = (ExcuseRow(activity_excuses, week_key(now)) # None)
            /\ w_met' = ClassifyMet(weekly_tasks, roblox_time, strikes, Roster(guild), now)
            /\ w_not_met' = ClassifyNotMet(weekly_tasks, roblox_time, strikes, Roster(guild), now)
            /\ w_zero' = ClassifyZero(weekly_tasks, roblox_time, strikes, Roster(guild), now)
    /\ rm_last' = None /\ enf_last' = None /\ ext_last' = None
    /\ web_last' = None
    /\ UNCHANGED callVars
    /\ UNCHANGED logVars
    /\ UNCHANGED <<orientVars, clockVars, guild, ledgerVars, counterVars, activity_excuses,
                   w_queue, w_issued, w_failed, w_enforced, w_report, reset_weeks,
                   reset_dropped>>

StrikeTargets_not_met_only(excused_reason, not_met, zero) ==
    IF Truthy(excused_reason) THEN {} ELSE MembersOf(not_met)

\* The members the strike pass goes through: none in an excused week
StrikeTargets(excused_reason, not_met, zero) ==
    IF Truthy(excused_reason) THEN {} ELSE MembersOf(not_met) \cup MembersOf(zero)

\* send_long_embed(announcement_channel, summary)
WeeklyReport ==
    /\ wpc = "report"
    /\ w_report' = Some([wk |-> w_wk, excused |-> Truthy(w_excused), reason |-> w_excused,
                         met |-> w_met, not_met |-> w_not_met, zero |-> w_zero])
    /\ w_queue' = StrikeTargets(w_excused, w_not_met, w_zero)
    /\ wpc' = "strikes"
    /\ rm_last' = None /\ enf_last' = None /\ ext_last' = None
    /\ web_last' = None
    /\ UNCHANGED callVars
    /\ UNCHANGED logVars
    /\ UNCHANGED <<orientVars, clockVars, guild, ledgerVars, counterVars, activity_excuses,
                   w_run, w_wk, w_excused, w_row, w_met, w_not_met, w_zero, w_issued, w_failed,
                   w_enforced, next_tick, reset_weeks,
                   reset_dropped>>

\* not_met + zero: the not-met members come first
NextInQueue(queue, not_met) ==
    IF queue \cap MembersOf(not_met) # {} THEN queue \cap MembersOf(not_met) ELSE queue

\* One iteration of the strike loop: issue_strike, then enforce_three_strikes at the limit
WeeklyStrike(kick_ok) ==
    /\ wpc = "strikes"
    /\ w_queue # {}
    /\ strike_seq < MaxStrikes
    /\ \E m \in NextInQueue(w_queue, w_not_met) :
        LET id == strike_seq + 1
            active_after == issue_strike_active(strikes, id, m, "Missed weekly quota", "null", TRUE, now)
            issued == Stores(issue_strike(strikes, id, m, "Missed weekly quota", "null", TRUE, now),
                             weekly_tasks, roblox_time, roblox_sessions, orientations)
        IN /\ strike_seq' = id
           /\ w_issued' = w_issued \cup (issued.strikes \ strikes)
           /\ w_queue' = w_queue \ {m}
           /\ IF MustEnforce(active_after)
              THEN \E dm_ok \in BOOLEAN, roblox_ok \in BOOLEAN :
                     LET run == enforce_three_strikes_calls(dm_ok, roblox_ok, kick_ok)
                     IN /\ guild' = enforce_three_strikes(guild, m, run.kicked)
                        /\ enforce_count' = [enforce_count EXCEPT ![m] = @ + 1]
                        /\ w_enforced' = w_enforced \cup {m}
                        /\ enf_last' = Some([member |-> m, run |-> run])
                        /\ Store(enforce_three_strikes_stored(issued, m))
              ELSE /\ UNCHANGED <<guild, enforce_count, w_enforced>>
                   /\ enf_last' = None
                   /\ Store(issued)
    /\ rm_last' = None /\ ext_last' = None
    /\ web_last' = None
    /\ UNCHANGED callVars
    /\ UNCHANGED logVars
    /\ UNCHANGED <<pollVars, clockVars, activity_excuses,
                   wpc, w_run, w_wk, w_excused, w_row, w_met, w_not_met, w_zero, w_failed,
                   w_report, next_tick, reset_weeks,
                   reset_dropped>>

strike_loop_after_error_aborts(queue, m) == {}

\* The strike loop after the except clause caught an error in m's turn: the for loop
\* goes on with the members it has not reached
strike_loop_after_error(queue, m) == queue \ {m}

\* Where m's turn in the strike loop can raise: the INSERT of issue_strike, its COUNT,
\* its log_action, and the log_action of enforce_three_strikes
FaultPoints == {"insert", "count", "log", "enforce"}

\* One turn of the strike loop that raises at fault and lands in the except clause
WeeklyStrikeFails(fault, kick_ok) ==
    /\ wpc = "strikes"
    /\ w_queue # {}
    /\ strike_seq < MaxStrikes
    /\ \E m \in NextInQueue(w_queue, w_not_met) :
        LET id == strike_seq + 1
            active_after == issue_strike_active(strikes, id, m, "Missed weekly quota", "null", TRUE, now)
            before == Stores(strikes, weekly_tasks, roblox_time, roblox_sessions, orientations)
            issued == Stores(issue_strike(strikes, id, m, "Missed weekly quota", "null", TRUE, now),
                             weekly_tasks, roblox_time, roblox_sessions, orientations)
        IN /\ fault = "enforce" => MustEnforce(active_after)
           /\ strike_seq' = IF fault = "insert" THEN strike_seq ELSE id
           /\ w_issued' = IF fault = "insert" THEN w_issued
                          ELSE w_issued \cup (issued.strikes \ strikes)
           /\ w_queue' = strike_loop_after_error(w_queue, m)
           /\ w_failed' = w_failed \cup {m}
           /\ IF fault = "enforce"
              THEN \E dm_ok \in BOOLEAN, roblox_ok \in BOOLEAN :
                     LET run == enforce_three_strikes_calls(dm_ok, roblox_ok, kick_ok)
                     IN /\ guild' = enforce_three_strikes(guild, m, run.kicked)
                        /\ enforce_count' = [enforce_count EXCEPT ![m] = @ + 1]
                        /\ w_enforced' = w_enforced \cup {m}
                        /\ enf_last' = Some([member |-> m, run |-> run])
                        /\ Store(enforce_three_strikes_stored(issued, m))
              ELSE /\ UNCHANGED <<guild, enforce_count, w_enforced>>
                   /\ enf_last' = None
                   /\ Store(IF fault = "insert" THEN before ELSE issued)
    /\ rm_last' = None /\ ext_last' = None
    /\ web_last' = None
    /\ UNCHANGED callVars
    /\ UNCHANGED logVars
    /\ UNCHANGED <<pollVars, clockVars, activity_excuses,
                   wpc, w_run, w_wk, w_excused, w_row, w_met, w_not_met, w_zero, w_report,
                   next_tick, reset_weeks,
                   reset_dropped>>

weekly_reset_counters_only(wt, rt, rs) == <<EmptyTable, EmptyTable, rs>>

\* TRUNCATE TABLE weekly_tasks, weekly_task_logs, roblox_time, roblox_sessions:
\* <<weekly_tasks, roblox_time, roblox_sessions>> afterwards
weekly_reset(wt, rt, rs) == <<EmptyTable, EmptyTable, EmptyTable>>

\* TRUNCATE TABLE ... weekly_task_logs ...: the weekly log afterwards (task_logs is not named)
weekly_reset_logs(wl) == [m \in DOMAIN wl |-> <<>>]

\* The reset, after which check_weekly_tasks returns
WeeklyReset ==
    /\ wpc = "strikes"
    /\ w_queue = {}
    /\ weekly_tasks' = weekly_reset(weekly_tasks, roblox_time, roblox_sessions)[1]
    /\ roblox_time' = weekly_reset(weekly_tasks, roblox_time, roblox_sessions)[2]
    /\ roblox_sessions' = weekly_reset(weekly_tasks, roblox_time, roblox_sessions)[3]
    /\ wpc' = "idle"
    /\ w_wk' = 0
    /\ w_excused' = None
    /\ w_row' = FALSE
    /\ w_met' = {}
    /\ w_not_met' = {}
    /\ w_zero' = {}
    /\ w_issued' = {}
    /\ w_failed' = {}
    /\ reset_weeks' = reset_weeks \cup {w_wk}
    /\ reset_dropped' = DOMAIN roblox_sessions
    /\ weekly_task_logs' = weekly_reset_logs(weekly_task_logs)
    /\ UNCHANGED <<task_logs, log_last>>
    /\ w_enforced' = {}
    /\ w_report' = None
    /\ rm_last' = None /\ enf_last' = None /\ ext_last' = None
    /\ web_last' = None
    /\ UNCHANGED callVars
    /\ UNCHANGED <<orientVars, clockVars, guild, ledgerVars, activity_excuses, w_run, w_queue,
                   next_tick>>

\* ------------------------------------------------------------------------
\* Orientation window
\* ------------------------------------------------------------------------

\* Members who received the Scientific Trainee role before the bot could see the event
RoleHeldBefore == {"m1"}

\* The row on_member_update and ensure_orientation_record insert
NewOrientation(t) ==
    [assigned_at |-> t, deadline |-> Some(t + timedelta(ORIENTATION_DAYS, 0, 0, 0)),
     passed |-> FALSE, passed_at |-> None, warned_5d |-> FALSE, expired_handled |-> FALSE]

InsertOrReplace(tbl, k, row) == Upsert(tbl, k, row)

\* INSERT ... ON CONFLICT (discord_id) DO NOTHING
InsertIfAbsent(tbl, k, row) == IF k \in DOMAIN tbl THEN tbl ELSE Upsert(tbl, k, row)

\* on_member_update, when the member has just received the Scientific Trainee role
GrantRole(m) ==
    /\ m \in guild
    /\ m \notin trainee
    /\ Len(role_grants[m]) < MaxGrants
    /\ trainee' = trainee \cup {m}
    /\ role_grants' = [role_grants EXCEPT ![m] = Append(@, now)]
    /\ orientations' = InsertIfAbsent(orientations, m, NewOrientation(now))
    /\ rm_last' = None /\ enf_last' = None /\ ext_last' = None
    /\ web_last' = None
    /\ UNCHANGED callVars
    /\ UNCHANGED logVars
    /\ UNCHANGED <<clockVars, guild, ledgerVars, counterVars, activity_excuses, weeklyVars,
                   warn_count, expiry_count, opc, o_now, o_alert, o_rows, o_done>>

\* on_member_update, when the role is taken away: the handler does nothing
RevokeRole(m) ==
    /\ m \in guild
    /\ m \in trainee
    /\ trainee' = trainee \ {m}
    /\ rm_last' = None /\ enf_last' = None /\ ext_last' = None
    /\ web_last' = None
    /\ UNCHANGED callVars
    /\ UNCHANGED logVars
    /\ UNCHANGED <<clockVars, guild, ledgerVars, counterVars, activity_excuses, weeklyVars,
                   orientations, role_grants, warn_count, expiry_count,
                   opc, o_now, o_alert, o_rows, o_done>>

ensure_orientation_record_reopen(tbl, m, has_role, t) ==
    IF has_role THEN Upsert(tbl, m, NewOrientation(t)) ELSE tbl

\* ensure_orientation_record: the table afterwards
ensure_orientation_record(tbl, m, has_role, t) ==
    IF m \in DOMAIN tbl THEN tbl
    ELSE IF has_role THEN Upsert(tbl, m, NewOrientation(t))
    ELSE tbl

\* /orientationview
orientationview(m) ==
    /\ m \in guild
    /\ orientations' = ensure_orientation_record(orientations, m, m \in trainee, now)
    /\ rm_last' = None /\ enf_last' = None /\ ext_last' = None
    /\ web_last' = None
    /\ UNCHANGED callVars
    /\ UNCHANGED logVars
    /\ UNCHANGED <<clockVars, guild, ledgerVars, counterVars, activity_excuses, weeklyVars,
                   trainee, role_grants, warn_count, expiry_count,
                   opc, o_now, o_alert, o_rows, o_done>>

extend_deadline_rearm(tbl, m, days, t) ==
    IF m \notin DOMAIN tbl THEN tbl
    ELSE IF tbl[m].passed THEN tbl
    ELSE [tbl EXCEPT ![m].deadline = Some(tbl[m].deadline[1] + timedelta(days, 0, 0, 0)),
                     ![m].warned_5d = FALSE]

\* /extendorientation: the table afterwards
extend_deadline(tbl, m, days, t) ==
    IF m \notin DOMAIN tbl THEN tbl
    ELSE IF tbl[m].passed THEN tbl
    ELSE [tbl EXCEPT ![m].deadline =
             Some((IF tbl[m].deadline # None THEN tbl[m].deadline[1] ELSE t) + timedelta(days, 0, 0, 0))]

\* /extendorientation: which of its three messages the command answers with
extendorientation_reply(tbl, m) ==
    IF m \notin DOMAIN tbl THEN "no_record"
    ELSE IF tbl[m].passed THEN "already_passed"
    ELSE "extended"

\* /extendorientation
extendorientation(m, days) ==
    /\ m \in guild
    /\ LET tbl == ensure_orientation_record(orientations, m, m \in trainee, now)
       IN /\ (m \in DOMAIN tbl /\ tbl[m].deadline # None) =>
                tbl[m].deadline[1] + timedelta(days, 0, 0, 0)
                   <= tbl[m].assigned_at + timedelta(ORIENTATION_DAYS + MaxExtraDays, 0, 0, 0)
          /\ orientations' = extend_deadline(tbl, m, days, now)
          /\ ext_last' = Some([member |-> m, days |-> days,
                                reply |-> extendorientation_reply(tbl, m)])
    /\ rm_last' = None /\ enf_last' = None
    /\ web_last' = None
    /\ UNCHANGED callVars
    /\ UNCHANGED logVars
    /\ UNCHANGED <<clockVars, guild, ledgerVars, counterVars, activity_excuses, weeklyVars,
                   trainee, role_grants, warn_count, expiry_count,
                   opc, o_now, o_alert, o_rows, o_done>>

mark_passed_flag_only(tbl, m, t) ==
    IF m \in DOMAIN tbl
    THEN [tbl EXCEPT ![m].passed = TRUE, ![m].passed_at = Some(t)]
    ELSE Upsert(tbl, m,
            [assigned_at |-> t, deadline |-> Some(t + timedelta(ORIENTATION_DAYS, 0, 0, 0)),
             passed |-> TRUE, passed_at |-> Some(t), warned_5d |-> TRUE, expired_handled |-> TRUE])

\* /passedorientation: INSERT ... ON CONFLICT (discord_id) DO UPDATE SET passed, passed_at,
\* warned_5d, expired_handled
mark_passed(tbl, m, t) ==
    IF m \in DOMAIN tbl
    THEN [tbl EXCEPT ![m].passed = TRUE, ![m].passed_at = Some(t),
                     ![m].warned_5d = TRUE, ![m].expired_handled = TRUE]
    ELSE Upsert(tbl, m,
            [assigned_at |-> t, deadline |-> Some(t + timedelta(ORIENTATION_DAYS, 0, 0, 0)),
             passed |-> TRUE, passed_at |-> Some(t), warned_5d |-> TRUE, expired_handled |-> TRUE])

\* /passedorientation
passedorientation(m) ==
    /\ m \in guild
    /\ orientations' = mark_passed(orientations, m, now)
    /\ rm_last' = None /\ enf_last' = None /\ ext_last' = None
    /\ web_last' = None
    /\ UNCHANGED callVars
    /\ UNCHANGED logVars
    /\ UNCHANGED <<clockVars, guild, ledgerVars, counterVars, activity_excuses, weeklyVars,
                   trainee, role_grants, warn_count, expiry_count,
                   opc, o_now, o_alert, o_rows, o_done>>

UnpassedRows_all(tbl) ==
    {[discord_id |-> m, deadline |-> tbl[m].deadline, warned_5d |-> tbl[m].warned_5d,
      passed |-> tbl[m].passed, expired_handled |-> tbl[m].expired_handled] : m \in DOMAIN tbl}

\* SELECT discord_id, deadline, warned_5d, passed, expired_handled FROM orientations
\* WHERE passed = FALSE
UnpassedRows(tbl) ==
    {[discord_id |-> m, deadline |-> tbl[m].deadline, warned_5d |-> tbl[m].warned_5d,
      passed |-> tbl[m].passed, expired_handled |-> tbl[m].expired_handled] :
        m \in {x \in DOMAIN tbl : ~tbl[x].passed}}

\* orientation_reminder_loop up to its for loop: alert channel lookup, the fetch, now
PollStart(alert_ok) ==
    /\ opc = "idle"
    /\ IF UnpassedRows(orientations) = {}
       THEN UNCHANGED <<opc, o_now, o_alert, o_rows, o_done>>
       ELSE /\ opc' = "loop"
            /\ o_now' = now
            /\ o_alert' = alert_ok
            /\ o_rows' = UnpassedRows(orientations)
            /\ o_done' = {}
    /\ rm_last' = None /\ enf_last' = None /\ ext_last' = None
    /\ web_last' = None
    /\ UNCHANGED callVars
    /\ UNCHANGED logVars
    /\ UNCHANGED <<clockVars, guild, ledgerVars, counterVars, activity_excuses, weeklyVars,
                   orientations, trainee, role_grants, warn_count, expiry_count>>

WarningDue_unbanded(r, t) == ~r.warned_5d

WarningDue_unlatched(r, t) ==
    /\ timedelta(4, 23, 0, 0) <= r.deadline[1] - t
    /\ r.deadline[1] - t <= timedelta(5, 1, 0, 0)

\* (not warned) and timedelta(days=4, hours=23) <= remaining <= timedelta(days=5, hours=1)
WarningDue(r, t) ==
    /\ ~r.warned_5d
    /\ timedelta(4, 23, 0, 0) <= r.deadline[1] - t
    /\ r.deadline[1] - t <= timedelta(5, 1, 0, 0)

ExpiryDue_unlatched(r, t) == r.deadline[1] - t <= 0

\* remaining <= timedelta(seconds=0) and not expired_handled
ExpiryDue(r, t) == r.deadline[1] - t <= 0 /\ ~r.expired_handled

continue_after_skip_break(rows, r) == {}

\* if not deadline: continue -- the loop goes on with the rows not yet examined
continue_after_skip(rows, r) == rows \ {r}

\* One iteration of the for loop, on a fetched row r
PollRecord(kick_ok) ==
    /\ opc = "loop"
    /\ \E r \in o_rows :
        LET m == r.discord_id
            skip == r.deadline = None
            warn == ~skip /\ WarningDue(r, o_now) /\ o_alert /\ m \in guild
            expire == ~skip /\ ExpiryDue(r, o_now) /\ m \in guild
        IN /\ o_rows' = IF skip THEN continue_after_skip(o_rows, r) ELSE o_rows \ {r}
           /\ o_done' = o_done \cup {r}
           /\ warn_count' = IF warn THEN [warn_count EXCEPT ![m] = @ + 1] ELSE warn_count
           /\ expiry_count' = IF expire THEN [expiry_count EXCEPT ![m] = @ + 1] ELSE expiry_count
           /\ orientations' =
                [orientations EXCEPT
                    ![m].warned_5d = IF warn THEN TRUE ELSE @,
                    ![m].expired_handled = IF expire THEN TRUE ELSE @]
           /\ guild' = IF expire /\ kick_ok THEN guild \ {m} ELSE guild
    /\ rm_last' = None /\ enf_last' = None /\ ext_last' = None
    /\ web_last' = None
    /\ UNCHANGED callVars
    /\ UNCHANGED logVars
    /\ UNCHANGED <<clockVars, ledgerVars, counterVars, activity_excuses, weeklyVars,
                   trainee, role_grants, opc, o_now, o_alert>>

\* Where the handling of one row can raise: the alert send, the UPDATE of warned_5d,
\* the log_action after the kick, the UPDATE of expired_handled
PollFaultPoints == {"alert", "warn_update", "log", "expire_update"}

\* One iteration of the for loop that raises at fault: what was awaited before the
\* fault has happened, the UPDATE that sets the latch has not
PollRecordFails(fault, kick_ok) ==
    /\ opc = "loop"
    /\ \E r \in o_rows :
        LET m == r.discord_id
            skip == r.deadline = None
            warn == ~skip /\ WarningDue(r, o_now) /\ o_alert /\ m \in guild
            expire == ~skip /\ ExpiryDue(r, o_now) /\ m \in guild
            enforced == fault \in {"log", "expire_update"}
        IN /\ fault \in {"alert", "warn_update"} => warn
           /\ enforced => expire
           /\ fault = "warn_update" => warn_count[m] < MaxRepeats
           /\ enforced => expiry_count[m] < MaxRepeats
           /\ o_rows' = o_rows \ {r}
           /\ o_done' = o_done \cup {r}
           /\ warn_count' = IF fault = "warn_update" THEN [warn_count EXCEPT ![m] = @ + 1]
                             ELSE warn_count
           /\ expiry_count' = IF enforced THEN [expiry_count EXCEPT ![m] = @ + 1]
                               ELSE expiry_count
           /\ guild' = IF enforced /\ kick_ok THEN guild \ {m} ELSE guild
    /\ opc' = "raised"
    /\ rm_last' = None /\ enf_last' = None /\ ext_last' = None
    /\ web_last' = None
    /\ UNCHANGED callVars
    /\ UNCHANGED logVars
    /\ UNCHANGED <<clockVars, ledgerVars, counterVars, activity_excuses, weeklyVars,
                   orientations, trainee, role_grants, o_now, o_alert>>

\* except Exception as e: print(...) - the poll returns with the rows it has not reached
PollExcept ==
    /\ opc = "raised"
    /\ opc' = "idle"
    /\ o_rows' = {}
    /\ o_done' = {}
    /\ rm_last' = None /\ enf_last' = None /\ ext_last' = None
    /\ web_last' = None
    /\ UNCHANGED callVars
    /\ UNCHANGED logVars
    /\ UNCHANGED <<clockVars, guild, ledgerVars, counterVars, activity_excuses, weeklyVars,
                   orientations, trainee, role_grants, warn_count, expiry_count,
                   o_now, o_alert>>

\* The for loop is over: the poll returns
PollEnd ==
    /\ opc = "loop"
    /\ o_rows = {}
    /\ opc' = "idle"
    /\ o_done' = {}
    /\ rm_last' = None /\ enf_last' = None /\ ext_last' = None
    /\ web_last' = None
    /\ UNCHANGED callVars
    /\ UNCHANGED logVars
    /\ UNCHANGED <<clockVars, guild, ledgerVars, counterVars, activity_excuses, weeklyVars,
                   orientations, trainee, role_grants, warn_count, expiry_count,
                   o_now, o_alert, o_rows>>

\* ------------------------------------------------------------------------
\* The removal gateway: try_remove_from_roblox and _retry
\* ------------------------------------------------------------------------

\* _retry(coro_factory, attempts=3, delay=0.8)
RETRY_ATTEMPTS == 3

\* No call in flight
NoRemoval ==
    [pc |-> "idle", url |-> FALSE, secret |-> FALSE, discord_id |-> None, i |-> 0,
     last_exc |-> None, events |-> <<>>, retried |-> None, caught |-> FALSE,
     result |-> None]

\* SELECT roblox_id FROM roblox_verification WHERE discord_id = $1
RobloxIdOf(discord_id) ==
    IF discord_id \in DOMAIN roblox_verification THEN Some(roblox_verification[discord_id])
    ELSE None

\* What one do_post() can come to: a 2xx answer, another status (RuntimeError), the
\* 20 s timeout, or an error of the connection
PostOutcomes == {"2xx", "status", "timeout", "error"}

\* try_remove_from_roblox up to the first do_post: the configuration check, the lookup
\* (which may raise inside the try), `if not roblox_id`.  caught says that the except
\* clause of try_remove_from_roblox has run
RemoveCall(url, secret, discord_id, db_ok) ==
    /\ removal.pc = "idle"
    /\ removal' =
         LET call == [NoRemoval EXCEPT !.url = url, !.secret = secret,
                                       !.discord_id = Some(discord_id)]
         IN IF ~url \/ ~secret
            THEN [call EXCEPT !.pc = "done", !.result = Some(FALSE)]
            ELSE IF ~db_ok
            THEN [call EXCEPT !.pc = "done", !.events = <<"fetchval">>, !.caught = TRUE,
                              !.result = Some(FALSE)]
            ELSE IF RobloxIdOf(discord_id) = None
            THEN [call EXCEPT !.pc = "done", !.events = <<"fetchval">>, !.result = Some(FALSE)]
            ELSE [call EXCEPT !.pc = "attempt", !.events = <<"fetchval">>]
    /\ rm_last' = None /\ enf_last' = None /\ ext_last' = None
    /\ web_last' = None
    /\ UNCHANGED logVars
    /\ UNCHANGED <<orientVars, clockVars, guild, ledgerVars, counterVars, activity_excuses,
                   weeklyVars, call_pc, call_active>>

retry_more_always(i, attempts) == TRUE

\* if i < attempts - 1: another attempt follows the failed attempt i
retry_more(i, attempts) == i < attempts - 1

\* One pass of the for loop of _retry: await coro_factory(), which returns or raises
RetryAttempt(outcome) ==
    /\ removal.pc = "attempt"
    /\ removal' =
         LET posted == [removal EXCEPT !.events = Append(@, outcome)]
         IN IF outcome = "2xx"
            THEN [posted EXCEPT !.pc = "retried",
                                !.retried = Some([kind |-> "return", value |-> "True"])]
            ELSE IF retry_more(removal.i, RETRY_ATTEMPTS)
            THEN [posted EXCEPT !.pc = "sleep", !.last_exc = Some(outcome)]
            ELSE [posted EXCEPT !.pc = "retried", !.last_exc = Some(outcome),
                                !.retried = Some([kind |-> "raise", value |-> outcome])]
    /\ rm_last' = None /\ enf_last' = None /\ ext_last' = None
    /\ web_last' = None
    /\ UNCHANGED logVars
    /\ UNCHANGED <<orientVars, clockVars, guild, ledgerVars, counterVars, activity_excuses,
                   weeklyVars, call_pc, call_active>>

\* await asyncio.sleep(delay), after which the for loop takes the next i
RetrySleep ==
    /\ removal.pc = "sleep"
    /\ removal' = [removal EXCEPT !.pc = "attempt", !.i = @ + 1,
                                  !.events = Append(@, "sleep")]
    /\ rm_last' = None /\ enf_last' = None /\ ext_last' = None
    /\ web_last' = None
    /\ UNCHANGED logVars
    /\ UNCHANGED <<orientVars, clockVars, guild, ledgerVars, counterVars, activity_excuses,
                   weeklyVars, call_pc, call_active>>

try_remove_result_true(retried) == TRUE

\* return await _retry(do_post) / except Exception: return False
try_remove_result(retried) == retried.kind = "return"

\* _retry has returned or raised: try_remove_from_roblox returns its boolean
RemoveFinish ==
    /\ removal.pc = "retried"
    /\ removal' = [removal EXCEPT !.pc = "done",
                                  !.caught = (removal.retried[1].kind = "raise"),
                                  !.result = Some(try_remove_result(removal.retried[1]))]
    /\ rm_last' = None /\ enf_last' = None /\ ext_last' = None
    /\ web_last' = None
    /\ UNCHANGED logVars
    /\ UNCHANGED <<orientVars, clockVars, guild, ledgerVars, counterVars, activity_excuses,
                   weeklyVars, call_pc, call_active>>

\* The caller has the boolean; the next call may start
RemoveReturn ==
    /\ removal.pc = "done"
    /\ removal' = NoRemoval
    /\ rm_last' = None /\ enf_last' = None /\ ext_last' = None
    /\ web_last' = None
    /\ UNCHANGED logVars
    /\ UNCHANGED <<orientVars, clockVars, guild, ledgerVars, counterVars, activity_excuses,
                   weeklyVars, call_pc, call_active>>

\* ------------------------------------------------------------------------
\* Specifications
\* ------------------------------------------------------------------------
InitOther ==
    /\ now = 0
    /\ guild = Members
    /\ strikes = {}
    /\ strike_seq = 0
    /\ enforce_count = [m \in Members |-> 0]
    /\ weekly_tasks = EmptyTable
    /\ roblox_time = EmptyTable
    /\ roblox_sessions = EmptyTable
    /\ activity_excuses = EmptyTable
    /\ wpc = "idle"
    /\ w_run = 0
    /\ w_wk = 0
    /\ w_excused = None
    /\ w_row = FALSE
    /\ w_met = {}
    /\ w_not_met = {}
    /\ w_zero = {}
    /\ w_queue = {}
    /\ w_issued = {}
    /\ w_failed = {}
    /\ call_pc = [c \in Callers |-> "idle"]
    /\ call_active = [c \in Callers |-> 0]
    /\ removal = NoRemoval
    /\ next_tick = 0
    /\ reset_weeks = {}
    /\ reset_dropped = {}
    /\ w_enforced = {}
    /\ w_report = None
    /\ trainee = RoleHeldBefore
    /\ role_grants = [m \in Members |-> <<>>]
    /\ warn_count = [m \in Members |-> 0]
    /\ expiry_count = [m \in Members |-> 0]
    /\ opc = "idle"
    /\ o_now = 0
    /\ o_alert = FALSE
    /\ o_rows = {}
    /\ o_done = {}
    /\ rm_last = None
    /\ enf_last = None
    /\ ext_last = None
    /\ web_last = None
    /\ task_logs = [m \in Members |-> <<>>]
    /\ weekly_task_logs = [m \in Members |-> <<>>]
    /\ log_last = None

\* The state after on_ready with an empty database
Init == orientations = EmptyTable /\ InitOther

Weekly ==
    \/ WeeklySkip
    \/ \E chan_ok \in BOOLEAN, role_ok \in BOOLEAN : WeeklyBegin(chan_ok, role_ok)
    \/ WeeklyReport
    \/ \E kick_ok \in BOOLEAN : WeeklyStrike(kick_ok)
    \/ WeeklyReset

\* The week of the quota: a Monday, two instants 25 minutes apart, and the Sunday
WeekClock == {timedelta(0, 0, 25, 0), timedelta(0, 0, 50, 0), timedelta(6, 0, 0, 0)}

Next ==
    \/ \E t \in WeekClock : Advance(t)
    \/ Leave("m2")
    \/ \E m \in {"m1", "m2"} : LogTask(m)
    \/ \E status \in {"joined", "left"} : roblox_handler(TRUE, "r1", status)
    \/ \E action \in {"set", "clear"}, week \in {None}, reason \in {None, Some("holiday")} :
           activityexcuse(action, week, reason)
    \/ Weekly

Spec == Init /\ [][Next]_vars

\* The ledger over a quarter: a Monday, the first Sunday, and the Sunday 90 days on
LedgerClock == {timedelta(6, 0, 0, 0), timedelta(STRIKE_DAYS, 0, 0, 0)}

NextLedger ==
    \/ \E t \in LedgerClock : Advance(t)
    \/ \E kick_ok \in BOOLEAN : strikes_add("m1", "manual", kick_ok)
    \/ \E c \in 1..MaxCount : strikes_remove("m1", c)
    \/ Weekly

SpecLedger == Init /\ [][NextLedger]_vars

\* The orientation window of a trainee: both ends of the 5-day band, the day after,
\* and the deadline
OrientClock == {timedelta(8, 23, 0, 0), timedelta(9, 1, 0, 0), timedelta(10, 0, 0, 0),
                timedelta(14, 0, 0, 0)}

NextOrient ==
    \/ \E t \in OrientClock : Advance(t)
    \/ Leave("m1")
    \/ GrantRole("m1")
    \/ RevokeRole("m1")
    \/ orientationview("m1")
    \/ \E days \in 1..MaxExtraDays : extendorientation("m1", days)
    \/ passedorientation("m1")
    \/ \E alert_ok \in BOOLEAN : PollStart(alert_ok)
    \/ \E kick_ok \in BOOLEAN : PollRecord(kick_ok)
    \/ PollEnd

SpecOrient == Init /\ [][NextOrient]_vars

\* The evaluator with turns of its strike loop that raise
NextFault ==
    \/ Advance(timedelta(RESET_WEEKDAY, 0, 0, 0))
    \/ LogTask("m1")
    \/ \E kick_ok \in BOOLEAN : strikes_add("m1", "manual", kick_ok)
    \/ Weekly
    \/ \E fault \in FaultPoints, kick_ok \in BOOLEAN : WeeklyStrikeFails(fault, kick_ok)

SpecFault == Init /\ [][NextFault]_vars

\* The daily tick over two weeks: a Tuesday and the two Sundays
GateClock == {timedelta(1, 0, 0, 0), timedelta(RESET_WEEKDAY, 0, 0, 0),
              timedelta(7 + RESET_WEEKDAY, 0, 0, 0)}

NextGate ==
    \/ \E t \in GateClock : Advance(t)
    \/ LogTask("m1")
    \/ \E status \in {"joined", "left"} : roblox_handler(TRUE, "r1", status)
    \/ Weekly

SpecGate == Init /\ [][NextGate]_vars

\* Excuses over two weeks: the two Sundays, an excuse for the current week or for a
\* week typed in either case
NextExcuse ==
    \/ \E t \in {timedelta(RESET_WEEKDAY, 0, 0, 0), timedelta(7 + RESET_WEEKDAY, 0, 0, 0)} :
           Advance(t)
    \/ LogTask("m1")
    \/ \E action \in {"set", "clear"},
          week \in {None, Some(WeekText(1, FALSE)), Some(WeekText(2, TRUE))} :
           activityexcuse(action, week, Some("holiday"))
    \/ Weekly

SpecExcuse == Init /\ [][NextExcuse]_vars

\* Two /strikes_add commands for one member, statement by statement
NextRace ==
    \/ \E c \in Callers : CallInsert(c, "m1")
    \/ \E c \in Callers : CallCount(c, "m1")
    \/ \E c \in Callers, kick_ok \in BOOLEAN : CallReturn(c, "m1", kick_ok)

SpecRace == Init /\ [][NextRace]_vars

\* Calls of the removal gateway, one after the other
NextGateway ==
    \/ \E url \in BOOLEAN, secret \in BOOLEAN, discord_id \in Members, db_ok \in BOOLEAN :
           RemoveCall(url, secret, discord_id, db_ok)
    \/ \E outcome \in PostOutcomes : RetryAttempt(outcome)
    \/ RetrySleep
    \/ RemoveFinish
    \/ RemoveReturn

SpecGateway == Init /\ [][NextGateway]_vars

\* do_post ends (the POST has timeout=20) and asyncio.sleep ends
SpecGatewayFair ==
    /\ SpecGateway
    /\ WF_vars(\E outcome \in PostOutcomes : RetryAttempt(outcome))
    /\ WF_vars(RetrySleep)
    /\ WF_vars(RemoveFinish)

\* The session webhook under every kind of request: the secret right or wrong, a robloxId
\* that is linked or linked to nobody, any status, at two instants 25 minutes apart
NextWebhook ==
    \/ \E t \in {timedelta(0, 0, 25, 0), timedelta(0, 0, 50, 0)} : Advance(t)
    \/ \E key_ok \in BOOLEAN, rid \in RobloxIds, status \in {"joined", "left", "other"} :
           roblox_handler(key_ok, rid, status)

SpecWebhook == Init /\ [][NextWebhook]_vars

\* Enforcement with counters, a session and an orientation record stored
NextEnforce ==
    \/ \E kick_ok \in BOOLEAN : strikes_add("m1", "manual", kick_ok)
    \/ LogTask("m1")
    \/ \E status \in {"joined", "left"} : roblox_handler(TRUE, "r1", status)
    \/ orientationview("m1")

SpecEnforce == Init /\ [][NextEnforce]_vars

\* Two trainees under the poll, one of whom management may pass: the middle of the
\* 5-day band and the deadline
PairClock == {timedelta(9, 0, 0, 0), timedelta(14, 0, 0, 0)}

NextOrientPair ==
    \/ \E t \in PairClock : Advance(t)
    \/ \E m \in {"m1", "m2"} : GrantRole(m)
    \/ RevokeRole("m1")
    \/ \E days \in 1..MaxExtraDays : extendorientation("m1", days)
    \/ passedorientation("m1")
    \/ \E alert_ok \in BOOLEAN : PollStart(alert_ok)
    \/ \E kick_ok \in BOOLEAN : PollRecord(kick_ok)
    \/ PollEnd

SpecOrientPair == Init /\ [][NextOrientPair]_vars

\* A row of the orientations table whose deadline column is NULL (the column is nullable,
\* and extendorientation and the poll both provide for it)
NullDeadlineRow ==
    [assigned_at |-> 0, deadline |-> None, passed |-> FALSE, passed_at |-> None,
     warned_5d |-> FALSE, expired_handled |-> FALSE]

\* The bot started on a database that already holds such a row, for m2
InitNullDeadline == orientations = [m \in {"m2"} |-> NullDeadlineRow] /\ InitOther

NextNullDeadline ==
    \/ \E t \in PairClock : Advance(t)
    \/ GrantRole("m1")
    \/ RevokeRole("m1")
    \/ \E days \in 1..MaxExtraDays : extendorientation("m1", days)
    \/ passedorientation("m1")
    \/ \E alert_ok \in BOOLEAN : PollStart(alert_ok)
    \/ \E kick_ok \in BOOLEAN : PollRecord(kick_ok)
    \/ PollEnd

SpecNullDeadline == InitNullDeadline /\ [][NextNullDeadline]_vars

\* The two operations that may remove a member next to those that may not: the ledger
\* commands for m1, a webhook event, the excuse command, the weekly evaluator with its
\* reset, and the assignment and the poll for the trainee m2.  One later instant: the
\* Sunday six days after the trainee's deadline
RemovalClock == {timedelta(ORIENTATION_DAYS + RESET_WEEKDAY, 0, 0, 0)}

NextRemoval ==
    \/ \E t \in RemovalClock : Advance(t)
    \/ strikes_add("m1", "manual", TRUE)
    \/ strikes_remove("m1", 1)
    \/ roblox_handler(TRUE, "r1", "left")
    \/ activityexcuse("set", None, Some("holiday"))
    \/ WeeklySkip
    \/ WeeklyBegin(TRUE, TRUE)
    \/ WeeklyReport
    \/ WeeklyStrike(TRUE)
    \/ WeeklyReset
    \/ GrantRole("m2")
    \/ PollStart(TRUE)
    \/ PollRecord(TRUE)
    \/ PollEnd

SpecRemoval == Init /\ [][NextRemoval]_vars

\* Logging, management additions and removals over a weekly reset: a numbered and an
\* unnumbered task type, for m1; removals also for m2, who has no log
LogTypes == {"Cross-Testing", "SCP Interviews"}

NextLogs ==
    \/ Advance(timedelta(RESET_WEEKDAY, 0, 0, 0))
    \/ \E task_type \in LogTypes :
           Len(task_logs["m1"]) + 1 <= MaxLogs /\ on_submit("m1", task_type)
    \/ \E task_type \in LogTypes, count \in 1..MaxCount :
           Len(task_logs["m1"]) + count <= MaxLogs /\ addtask("m1", task_type, count)
    \/ \E m \in {"m1", "m2"} : removelastlog(m)
    \/ WeeklySkip
    \/ WeeklyBegin(TRUE, TRUE)
    \/ WeeklyReport
    \/ WeeklyStrike(TRUE)
    \/ WeeklyReset

SpecLogs == Init /\ [][NextLogs]_vars

\* Two trainees under a poll in which the handling of a row may raise
NextPollFault ==
    \/ \E t \in PairClock : Advance(t)
    \/ \E m \in {"m1", "m2"} : GrantRole(m)
    \/ RevokeRole("m1")
    \/ \E alert_ok \in BOOLEAN : PollStart(alert_ok)
    \/ \E kick_ok \in BOOLEAN : PollRecord(kick_ok)
    \/ \E fault \in PollFaultPoints, kick_ok \in BOOLEAN : PollRecordFails(fault, kick_ok)
    \/ PollExcept
    \/ PollEnd

SpecPollFault == Init /\ [][NextPollFault]_vars

\* ------------------------------------------------------------------------
\* Properties
\* ------------------------------------------------------------------------
CountersEmpty(wt, rt, rs) == DOMAIN wt = {} /\ DOMAIN rt = {} /\ DOMAIN rs = {}

\* A step in which check_weekly_tasks, having passed the day gate, returns
WeeklyReturns == wpc' = "idle" /\ (wpc = "strikes" \/ w_run' # w_run)

\* A step in which it returns after the report and the strike pass
WeeklyCompletes == wpc = "strikes" /\ wpc' = "idle"

\* A step in which it returns because the channel or the role was not found
WeeklyGivesUp == wpc = "idle" /\ wpc' = "idle" /\ w_run' # w_run

\* A step of the evaluator itself while a run is under way
WeeklyStep == wpc # "idle" /\ (wpc' # wpc \/ w_queue' # w_queue)

\* C1 as claimed: whenever check_weekly_tasks runs its business logic on the reset day
\* and returns, weekly_tasks, roblox_time and roblox_sessions are empty, whatever happened
\* in the earlier steps (channel / role lookup, report, strikes).
C1_ResetOnEveryReturn ==
    [][WeeklyReturns => CountersEmpty(weekly_tasks', roblox_time', roblox_sessions')]_vars

\* C1 as amended: a run that found the announcement channel and the department role and
\* delivered its report leaves the three tables empty for all members when it returns,
\* excused or not and whatever the strike pass did; a run that did not find the channel
\* or the role returns with the three tables untouched.
C1_ResetAfterReport ==
    [][/\ WeeklyCompletes => CountersEmpty(weekly_tasks', roblox_time', roblox_sessions')
       /\ WeeklyGivesUp => UNCHANGED counterVars]_vars

\* C1: the run is about to return, strikes were issued, and rows of a member who is no
\* longer on the roster and an open session are still stored.
C1_Witness ==
    /\ wpc = "strikes" /\ w_queue = {} /\ w_issued # {}
    /\ \E m \in DOMAIN weekly_tasks : m \notin guild
    /\ DOMAIN roblox_time # {}
    /\ DOMAIN roblox_sessions # {}

ActiveAt(tbl, m, t) == Cardinality({r \in tbl : r.member = m /\ r.expires_at > t})

\* A step that inserts a strike row for m
IssuedTo(m) == \E r \in strikes' \ strikes : r.member = m

\* C3: issuing a strike (strikes_add or the weekly evaluator) to a member with exactly 2
\* active strikes returns 3 and invokes enforce_three_strikes exactly once for that member;
\* an issuance that leaves the active count below 3 invokes none.
C3_ThirdStrikeEnforces ==
    [][\A m \in Members : IssuedTo(m) =>
         /\ ActiveAt(strikes, m, now) = 2 =>
              /\ ActiveAt(strikes', m, now) = STRIKE_LIMIT
              /\ \A r \in strikes' \ strikes :
                    issue_strike_active(strikes, r.id, m, r.reason, r.set_by, r.auto, now) = STRIKE_LIMIT
              /\ enforce_count'[m] = enforce_count[m] + 1
         /\ ActiveAt(strikes', m, now) < STRIKE_LIMIT => enforce_count'[m] = enforce_count[m]]_vars

\* C3: a member with an expired strike was enforced once, on the third active strike,
\* which the weekly evaluator issued.
C3_Witness ==
    \E m \in Members :
        /\ enforce_count[m] = 1
        /\ ActiveAt(strikes, m, now) = STRIKE_LIMIT
        /\ \E r \in strikes : r.member = m /\ r.expires_at <= now
        /\ \E r \in strikes : r.member = m /\ r.auto /\ r.id = strike_seq

\* C4 as claimed: issuing a further strike to a member who already has 3 or more active
\* strikes and was already enforced does not invoke enforce_three_strikes again.
C4_NoSecondEnforcement ==
    [][\A m \in Members :
         (IssuedTo(m) /\ ActiveAt(strikes, m, now) >= STRIKE_LIMIT /\ enforce_count[m] >= 1)
            => enforce_count'[m] = enforce_count[m]]_vars

\* C5: the active count shown is the number of the member's rows with expires_at > now;
\* one issue_strike inserts exactly one row, with issued_at = now and
\* expires_at = issued_at + 90 days, and returns the previous active count plus 1.
C5_ActiveCount ==
    /\ [](\A m \in Members :
            /\ strikes_view(strikes, m, now)[1] = ActiveAt(strikes, m, now)
            /\ strikes_view(strikes, m, now)[2] = Cardinality({r \in strikes : r.member = m}))
    /\ [][\A m \in Members : IssuedTo(m) =>
            \E r \in strikes' :
                /\ r \notin strikes
                /\ strikes' = strikes \cup {r}
                /\ r.member = m
                /\ r.issued_at = now
                /\ r.expires_at = r.issued_at + timedelta(90, 0, 0, 0)
                /\ issue_strike_active(strikes, r.id, m, r.reason, r.set_by, r.auto, now)
                      = ActiveAt(strikes, m, now) + 1
                /\ ActiveAt(strikes', m, now) = ActiveAt(strikes, m, now) + 1]_vars

\* C5: a member holds an expired strike and two active ones, so that the active and the
\* total count differ.
C5_Witness ==
    \E m \in Members :
        /\ ActiveAt(strikes, m, now) = 2
        /\ Cardinality({r \in strikes : r.member = m}) = 3

\* C6: no step deletes or changes a strike row that has expired; a clock step changes no
\* row and lowers each member's active count by the number of rows it carries past their
\* expires_at.
C6_ExpiryByTimeOnly ==
    [][/\ \A r \in strikes : r.expires_at <= now => r \in strikes'
       /\ now' # now =>
            /\ strikes' = strikes
            /\ \A m \in Members :
                 ActiveAt(strikes', m, now') = ActiveAt(strikes, m, now)
                    - Cardinality({r \in strikes : r.member = m /\ now < r.expires_at
                                                     /\ r.expires_at <= now'})]_vars

\* C6: a member keeps an expired row although the strike issued last, after that row had
\* expired, has been removed again.
C6_Witness ==
    \E r1 \in strikes, r2 \in strikes :
        /\ r1.member = r2.member
        /\ r1.expires_at <= r2.issued_at
        /\ r2.id < strike_seq
        /\ ~ \E r \in strikes : r.id = strike_seq

\* C7: the classification puts every non-bot roster member in exactly one bucket: Met iff
\* tasks >= WEEKLY_REQUIREMENT and time // 60 >= WEEKLY_TIME_REQUIREMENT, Not-met iff the
\* member has a weekly_tasks or roblox_time row and fails that test, Zero-activity iff the
\* member has neither row; nobody else is in a bucket.
C7_Classification ==
    [][(wpc = "idle" /\ wpc' = "report") =>
         /\ \A m \in (DeptRole \cap guild) \ Bots :
              LET touched == m \in DOMAIN weekly_tasks \/ m \in DOMAIN roblox_time
                  tasks == IF m \in DOMAIN weekly_tasks THEN weekly_tasks[m] ELSE 0
                  secs == IF m \in DOMAIN roblox_time THEN roblox_time[m] ELSE 0
                  quota == tasks >= WEEKLY_REQUIREMENT /\ secs \div 60 >= WEEKLY_TIME_REQUIREMENT
              IN /\ m \in MembersOf(w_met') <=> (touched /\ quota)
                 /\ m \in MembersOf(w_not_met') <=> (touched /\ ~quota)
                 /\ m \in MembersOf(w_zero') <=> ~touched
                 /\ (tasks = 2 /\ secs = 3000) => m \in MembersOf(w_not_met')
                 /\ \A r \in w_not_met' : r.member = m => (r.tasks = tasks /\ r.mins = secs \div 60)
         /\ MembersOf(w_met') \cup MembersOf(w_not_met') \cup MembersOf(w_zero')
               = (DeptRole \cap guild) \ Bots
         /\ MembersOf(w_met') \cap MembersOf(w_not_met') = {}
         /\ MembersOf(w_met') \cap MembersOf(w_zero') = {}
         /\ MembersOf(w_not_met') \cap MembersOf(w_zero') = {}]_vars

\* C7: a run has classified a member with 2 tasks and 3000 s (50 minutes) as Not-met.
C7_Witness ==
    /\ wpc = "report"
    /\ \E r \in w_not_met : r.tasks = 2 /\ r.mins = 50
    /\ WEEKLY_REQUIREMENT = 3 /\ WEEKLY_TIME_REQUIREMENT = 45

\* C8: when a run that is not excused returns, it has inserted exactly one strike, with
\* reason "Missed weekly quota", no issuer and auto = true, for every member it classified
\* Not-met or Zero-activity, and none for anybody else.
C8_StrikePerShortfall ==
    [][/\ (wpc = "strikes" /\ w_issued' # w_issued /\ wpc' = "strikes")
            => (w_issued' \ w_issued) \subseteq (strikes' \ strikes)
       /\ (WeeklyCompletes /\ ~w_row) =>
            /\ \A m \in MembersOf(w_not_met) \cup MembersOf(w_zero) :
                 Cardinality({r \in w_issued : r.member = m}) = 1
            /\ \A m \in Members \ (MembersOf(w_not_met) \cup MembersOf(w_zero)) :
                 {r \in w_issued : r.member = m} = {}
            /\ \A r \in w_issued :
                 r.reason = "Missed weekly quota" /\ r.set_by = "null" /\ r.auto]_vars

\* C8: a run that is not excused is about to return with one member who met the quota,
\* and one without any activity.
C8_Witness ==
    /\ wpc = "strikes" /\ w_queue = {} /\ ~w_row
    /\ w_met # {} /\ w_zero # {}
    /\ w_issued # {}

\* ------------------------------------------------------------------------
\* Orientation properties
\* ------------------------------------------------------------------------

FreshRecord(row, t, extra) ==
    /\ row.assigned_at = t
    /\ row.deadline = Some(row.assigned_at + timedelta(ORIENTATION_DAYS, 0, 0, 0) + extra)
    /\ ~row.passed /\ ~row.warned_5d /\ ~row.expired_handled

\* C9: orientation assignment is idempotent.  A role-grant event or a status query on a
\* member who has a record leaves the whole record as it was, and the lazy creation inside
\* an extension leaves everything but the deadline it then extends; a record these create
\* has assigned_at = now, deadline = assigned_at + 14 days (plus the days of the extension
\* that created it) and passed, warned_5d, expired_handled all false; no step of any
\* operation removes a record.
C9_AssignmentIdempotent ==
    [][ /\ DOMAIN orientations \subseteq DOMAIN orientations'
        /\ \A m \in Members :
            /\ (m \in DOMAIN orientations /\ (GrantRole(m) \/ orientationview(m)))
                  => orientations'[m] = orientations[m]
            /\ (m \in DOMAIN orientations /\ \E d \in 1..MaxExtraDays : extendorientation(m, d))
                  => /\ orientations'[m].assigned_at = orientations[m].assigned_at
                     /\ orientations'[m].passed = orientations[m].passed
                     /\ orientations'[m].warned_5d = orientations[m].warned_5d
                     /\ orientations'[m].expired_handled = orientations[m].expired_handled
            /\ (m \notin DOMAIN orientations /\ m \in DOMAIN orientations'
                  /\ (GrantRole(m) \/ orientationview(m)))
                  => FreshRecord(orientations'[m], now, 0)
            /\ \A d \in 1..MaxExtraDays :
                 (m \notin DOMAIN orientations /\ m \in DOMAIN orientations'
                    /\ extendorientation(m, d))
                  => FreshRecord(orientations'[m], now, timedelta(d, 0, 0, 0))
      ]_vars

\* m1 has been granted the role twice by events, the second one after its record was
\* opened and after the 5-day reminder had latched, and the record is the first one still
C9_Witness ==
    /\ Len(role_grants["m1"]) = 2
    /\ "m1" \in DOMAIN orientations
    /\ role_grants["m1"][2] > orientations["m1"].assigned_at
    /\ orientations["m1"].warned_5d
    /\ ~orientations["m1"].passed

Examined == IF opc = "loop" THEN o_rows \ o_rows' ELSE {}

\* A fetched row that is overdue at the poll's now
Overdue(r) == r.deadline # None /\ r.deadline[1] - o_now <= 0

C12_OverdueAlwaysLatched ==
    [][\A r \in Examined :
         (Overdue(r) /\ ~r.expired_handled) => orientations'[r.discord_id].expired_handled]_vars

\* C13: in every state, every orientation record with passed = true has warned_5d = true
\* and expired_handled = true.
C13_PassedImpliesLatches ==
    \A m \in DOMAIN orientations :
        orientations[m].passed => (orientations[m].warned_5d /\ orientations[m].expired_handled)

\* m1's record was opened by assignment and passed later, and neither latch had been set
\* by a poll: no reminder was sent and no expiry enforced
C13_Witness ==
    /\ "m1" \in DOMAIN orientations
    /\ orientations["m1"].passed
    /\ orientations["m1"].passed_at # None
    /\ orientations["m1"].passed_at[1] > orientations["m1"].assigned_at
    /\ warn_count["m1"] = 0
    /\ expiry_count["m1"] = 0

\* C14: passed is terminal.  A record that is passed stays passed with both latches true
\* in every later step; a poll fetches no passed record when it starts, examines only what
\* it fetched, and sends a reminder or enforces only for a record it examines - so a poll
\* that starts after the pass does neither to that member, whatever the deadline.
C14_PassedTerminal ==
    [][/\ \A m \in DOMAIN orientations :
            orientations[m].passed =>
               /\ orientations'[m].passed
               /\ orientations'[m].warned_5d
               /\ orientations'[m].expired_handled
       /\ (opc = "idle" /\ opc' = "loop") =>
            \A r \in o_rows' : ~orientations[r.discord_id].passed
       /\ (opc = "loop" /\ opc' = "loop") => o_rows' \cup o_done' = o_rows \cup o_done
       /\ \A m \in Members :
            (warn_count'[m] # warn_count[m] \/ expiry_count'[m] # expiry_count[m])
               => \E r \in Examined : r.discord_id = m]_vars

\* A poll that started after m1 was passed has examined everything it fetched, m2's record
\* only, while m1 is in the guild with the deadline behind and was never enforced
C14_Witness ==
    /\ opc = "loop" /\ o_rows = {} /\ o_done # {}
    /\ "m1" \in DOMAIN orientations
    /\ orientations["m1"].passed
    /\ orientations["m1"].passed_at[1] < o_now
    /\ orientations["m1"].deadline[1] <= o_now
    /\ "m1" \in guild
    /\ \A r \in o_done : r.discord_id = "m2"
    /\ expiry_count["m1"] = 0

\* ------------------------------------------------------------------------
\* Manual removal
\* ------------------------------------------------------------------------

Min(a, b) == IF a < b THEN a ELSE b

\* C15: /strikes_remove with count on a member with a active strikes deletes exactly
\* min(count, a) rows and reports removed = min(count, a), remaining = a - min(count, a);
\* with a = 0 it deletes nothing and reports that there are no active strikes.
C15_RemoveCount ==
    [][rm_last' # None =>
         LET c == rm_last'[1]
             a == ActiveAt(strikes, c.member, now)
             n == Min(c.count, a)
         IN /\ strikes' \subseteq strikes
            /\ Cardinality(strikes \ strikes') = n
            /\ ActiveAt(strikes', c.member, now) = a - n
            /\ a = 0 => (strikes' = strikes /\ c.reply = None)
            /\ a > 0 => c.reply = Some([removed |-> n, remaining |-> a - n])]_vars

\* /strikes_remove with count = 2 on a member with 1 active strike (and an expired one)
\* has removed 1 and reported remaining 0
C15_Witness ==
    /\ rm_last # None
    /\ rm_last[1].count = 2
    /\ Cardinality(rm_last[1].rows) = 1
    /\ rm_last[1].reply = Some([removed |-> 1, remaining |-> 0])
    /\ \E r \in strikes : r.member = rm_last[1].member /\ r.expires_at <= now

\* C16: /strikes_remove deletes only rows of the named member with expires_at > now, the
\* earliest expires_at first: every active row the member keeps expires no earlier than
\* every row deleted, and rows of other members and expired rows stay as they were.
C16_EarliestFirst ==
    [][rm_last' # None =>
         LET c == rm_last'[1]
             gone == strikes \ strikes'
         IN /\ strikes' \subseteq strikes
            /\ gone = c.rows
            /\ \A r \in gone : r.member = c.member /\ r.expires_at > now
            /\ \A r \in gone, k \in strikes' :
                 (k.member = c.member /\ k.expires_at > now) => r.expires_at <= k.expires_at
            /\ \A k \in strikes :
                 (k.member # c.member \/ k.expires_at <= now) => k \in strikes']_vars

\* The last removal deleted a row while the member kept an active row that expires
\* strictly later and an expired row, and another member's strike is stored
C16_Witness ==
    /\ rm_last # None
    /\ rm_last[1].rows # {}
    /\ \E k \in strikes :
        /\ k.member = rm_last[1].member
        /\ k.expires_at > now
        /\ \A r \in rm_last[1].rows : r.expires_at < k.expires_at
    /\ \E k \in strikes : k.member = rm_last[1].member /\ k.expires_at <= now
    /\ \E k \in strikes : k.member # rm_last[1].member

\* ------------------------------------------------------------------------
\* Enforcement
\* ------------------------------------------------------------------------

\* A step in which enforce_three_strikes ran for m
Enforced(m) == enforce_count'[m] # enforce_count[m]

\* C17: enforce_three_strikes changes no stored state.  In a step that enforces on a
\* member the strikes table changes by the one row issue_strike inserted and nothing else
\* (no row deleted, no expires_at changed), so the member's active count is the count
\* issue_strike returned; weekly_tasks, roblox_time, roblox_sessions and the orientation
\* records are as before.
C17_EnforcementWritesNothing ==
    [][\A m \in Members : Enforced(m) =>
         /\ strikes \subseteq strikes'
         /\ Cardinality(strikes' \ strikes) = 1
         /\ \A r \in strikes' \ strikes : r.member = m /\ r.issued_at = now
         /\ ActiveAt(strikes', m, now) = ActiveAt(strikes, m, now) + 1
         /\ ActiveAt(strikes', m, now) >= STRIKE_LIMIT
         /\ UNCHANGED <<weekly_tasks, roblox_time, roblox_sessions, orientations>>]_vars

\* Enforcement has just kicked a member who has 3 active strikes, a task counter, a time
\* counter, an open session and an orientation record
C17_Witness ==
    /\ enf_last # None
    /\ enf_last[1].member \notin guild
    /\ ActiveAt(strikes, enf_last[1].member, now) = STRIKE_LIMIT
    /\ enf_last[1].member \in DOMAIN weekly_tasks
    /\ enf_last[1].member \in DOMAIN roblox_time
    /\ DOMAIN roblox_sessions # {}
    /\ enf_last[1].member \in DOMAIN orientations

\* C18: every invocation of enforce_three_strikes makes all its calls in order - the
\* notice, the external removal, the kick, log_action - whatever the notice and the
\* removal did; it does not raise, also when the kick fails; it hands log_action the
\* outcome of the removal and of the kick; and the member is gone from the guild exactly
\* when the kick succeeded.
C18_AllStepsAttempted ==
    [][\A m \in Members : Enforced(m) =>
         /\ enf_last' # None
         /\ enf_last'[1].member = m
         /\ LET run == enf_last'[1].run
            IN /\ run.calls = <<"send", "try_remove_from_roblox", "kick", "log_action">>
               /\ ~run.raised
               /\ run.log = Some([roblox_removed |-> run.roblox_removed, kicked |-> run.kicked])
               /\ run.kicked => m \notin guild'
               /\ (~run.kicked /\ m \in guild) => m \in guild']_vars

\* An enforcement whose notice and external removal both failed has kicked the member
C18_Witness ==
    /\ enf_last # None
    /\ ~enf_last[1].run.notice
    /\ ~enf_last[1].run.roblox_removed
    /\ enf_last[1].run.kicked
    /\ enf_last[1].member \notin guild

\* ------------------------------------------------------------------------
\* Errors in the strike pass
\* ------------------------------------------------------------------------

\* The members the strike pass of the run has to visit
PassTargets == IF w_row THEN {} ELSE MembersOf(w_not_met) \cup MembersOf(w_zero)

\* C19: an error in one member's turn of the strike pass (the INSERT, the COUNT or the
\* logging of issue_strike, the logging of enforcement) does not end the pass.  Every turn
\* takes exactly one member off the members still to visit; when the run returns, every
\* Not-met or Zero-activity member either had a turn that raised or holds exactly one new
\* strike, nobody is left unvisited, and the reset has emptied the counters.
C19_ErrorDoesNotAbortPass ==
    [][/\ (wpc = "strikes" /\ wpc' = "strikes" /\ w_queue' # w_queue)
            => \E m \in w_queue : w_queue' = w_queue \ {m}
       /\ WeeklyCompletes =>
            /\ w_queue = {}
            /\ \A m \in PassTargets :
                 \/ m \in w_failed
                 \/ Cardinality({r \in w_issued : r.member = m}) = 1
            /\ CountersEmpty(weekly_tasks', roblox_time', roblox_sessions')]_vars

\* A run is about to reset after the turn of a Not-met member raised and a
\* Zero-activity member, visited after that, received the strike
C19_Witness ==
    /\ wpc = "strikes" /\ w_queue = {}
    /\ w_failed \cap MembersOf(w_not_met) # {}
    /\ \E m \in MembersOf(w_zero) :
        /\ m \notin w_failed
        /\ \E r \in w_issued : r.member = m
    /\ DOMAIN weekly_tasks # {}

\* ------------------------------------------------------------------------
\* The day gate
\* ------------------------------------------------------------------------

\* A step in which tasks.loop fires check_weekly_tasks
Tick == next_tick' # next_tick

\* C20: the tick of check_weekly_tasks on a UTC day other than Sunday has no effect: the
\* evaluator stays idle, no run is counted, no report is sent, no strike is inserted,
\* nobody is enforced on, and weekly_tasks, roblox_time and roblox_sessions are unchanged.
\* With one tick per UTC day, the TRUNCATE is therefore executed for at most one tick of
\* any ISO week.
C20_DayGated ==
    [][/\ (Tick /\ weekday(now) # RESET_WEEKDAY) =>
            /\ wpc' = "idle" /\ w_run' = w_run /\ w_report' = w_report
            /\ strikes' = strikes /\ strike_seq' = strike_seq
            /\ enforce_count' = enforce_count /\ guild' = guild
            /\ weekly_tasks' = weekly_tasks
            /\ roblox_time' = roblox_time
            /\ roblox_sessions' = roblox_sessions
       /\ WeeklyCompletes => w_wk \notin reset_weeks]_vars

\* The tick has fired on a Tuesday with counters and an open session in the tables, and
\* the run of the first Sunday has reset them; the run of the second Sunday is under way
C20_SecondWeek ==
    /\ reset_weeks = {1}
    /\ w_run = 2
    /\ wpc = "strikes"
    /\ w_wk = 2
    /\ DOMAIN weekly_tasks # {}

\* The tick fired on a weekday with counters and an open session in the tables
C20_Witness ==
    /\ weekday(now) = 1
    /\ next_tick = 2
    /\ DOMAIN weekly_tasks # {}
    /\ DOMAIN roblox_sessions # {}
    /\ w_run = 0

\* ------------------------------------------------------------------------
\* Excuses are per week
\* ------------------------------------------------------------------------

\* C21: an excuse is scoped to its week key.  A run is excused exactly when the table
\* holds a row for the ISO week of the run: a run in a week without a row of its own gives
\* every Not-met or Zero-activity member a strike, whatever rows other weeks have, and a run
\* in a week with a row gives none.  /activityexcuse set and clear touch the row of the
\* addressed week only, so every week key has at most one row and the rows of other weeks
\* stay as they are.
C21_ExcuseWeekScoped ==
    [][/\ (wpc = "idle" /\ wpc' = "report")
            => (w_row' <=> week_key(now) \in DOMAIN activity_excuses)
       /\ (wpc = "report" /\ wpc' = "strikes" /\ ~w_row)
            => w_queue' = MembersOf(w_not_met) \cup MembersOf(w_zero)
       /\ WeeklyCompletes
            => \A m \in MembersOf(w_not_met) \cup MembersOf(w_zero) :
                 Cardinality({r \in w_issued : r.member = m}) = IF w_row THEN 0 ELSE 1
       /\ activity_excuses' # activity_excuses
            => \E wk \in (DOMAIN activity_excuses) \cup (DOMAIN activity_excuses') :
                 \A k \in ((DOMAIN activity_excuses) \cup (DOMAIN activity_excuses')) \ {wk} :
                    /\ k \in DOMAIN activity_excuses
                    /\ k \in DOMAIN activity_excuses'
                    /\ activity_excuses'[k] = activity_excuses[k]]_vars

\* The run of week 1 is about to reset having issued strikes while the only excuse
\* stored is the one of week 2
C21_Witness ==
    /\ wpc = "strikes" /\ w_queue = {} /\ w_wk = 1
    /\ DOMAIN activity_excuses = {2}
    /\ ~w_row
    /\ \A m \in MembersOf(w_not_met) \cup MembersOf(w_zero) : \E r \in w_issued : r.member = m
    /\ w_not_met # {}

\* The run of week 2 is excused by the excuse typed for week 2 after the run of week 1
\* issued strikes
C21_SecondWeekExcused ==
    /\ wpc = "strikes" /\ w_queue = {} /\ w_wk = 2
    /\ w_row
    /\ w_issued = {}
    /\ strikes # {}
    /\ reset_weeks = {1}

\* ------------------------------------------------------------------------
\* Concurrent issuance
\* ------------------------------------------------------------------------

\* C22: two issue_strike calls for one member that overlap never read the same active
\* count: of two calls that have both counted and not yet returned, one holds n + 1 and
\* the other n + 2.
C22_IssuanceAtomic ==
    (call_pc["a"] = "counted" /\ call_pc["b"] = "counted")
        => call_active["a"] # call_active["b"]

\* ------------------------------------------------------------------------
\* The poll and the manual pass
\* ------------------------------------------------------------------------

\* C23: however a poll and /passedorientation interleave, no expiry enforcement (notice,
\* external removal, kick) is carried out on a member whose record already has
\* passed = true.
C23_NoEnforcementAfterPass ==
    [][\A m \in Members :
         (m \in DOMAIN orientations /\ orientations[m].passed)
            => expiry_count'[m] = expiry_count[m]]_vars

\* ------------------------------------------------------------------------
\* The reset and concurrent logging
\* ------------------------------------------------------------------------

\* C24: the reset wipes no progress the run has not evaluated: when the TRUNCATE runs,
\* every member the run classified as Not met still has the task count it was classified
\* from, and every member it classified as Zero activity still has no counter.
C24_NoProgressLost ==
    [][WeeklyCompletes =>
         /\ \A r \in w_not_met : GetOr0(weekly_tasks, r.member) = r.tasks
         /\ \A r \in w_zero : /\ r.member \notin DOMAIN weekly_tasks
                             /\ r.member \notin DOMAIN roblox_time]_vars

\* ------------------------------------------------------------------------
\* Errors in the poll
\* ------------------------------------------------------------------------

\* C25: an error while one row is handled does not end the poll: the poll returns only
\* after every row it fetched has been examined.
C25_PollExaminesAllRows ==
    [][(opc # "idle" /\ opc' = "idle") => o_rows = {}]_vars

\* ------------------------------------------------------------------------
\* The removal gateway
\* ------------------------------------------------------------------------

\* The number of events of a call that are in the set kinds
CountOf(events, kinds) == Cardinality({k \in 1..Len(events) : events[k] \in kinds})

\* C26: try_remove_from_roblox never raises and returns a boolean.  With the URL or the
\* secret not configured it returns False having queried nothing and posted nothing; for a
\* member without a linked account it returns False without posting; otherwise it returns
\* True exactly when some attempt got a 2xx answer, and False when all attempts failed.
C26_RemovalReturnsBoolean ==
    removal.pc = "done" =>
        /\ removal.result \in {Some(TRUE), Some(FALSE)}
        /\ (~removal.url \/ ~removal.secret)
              => (removal.result = Some(FALSE) /\ removal.events = <<>>)
        /\ (removal.url /\ removal.secret /\ RobloxIdOf(removal.discord_id[1]) = None)
              => (removal.result = Some(FALSE) /\ removal.events = <<"fetchval">>)
        /\ removal.result = Some(TRUE)
              <=> CountOf(removal.events, {"2xx"}) > 0
        /\ (CountOf(removal.events, PostOutcomes) > 0 /\ CountOf(removal.events, {"2xx"}) = 0)
              => (removal.result = Some(FALSE)
                  /\ CountOf(removal.events, PostOutcomes) = RETRY_ATTEMPTS)

\* A configured call for a linked member has returned False after three failed attempts
C26_Witness ==
    /\ removal.pc = "done"
    /\ removal.url /\ removal.secret
    /\ removal.result = Some(FALSE)
    /\ CountOf(removal.events, PostOutcomes) = 3

\* An unconfigured call has returned False at once
C26_UnconfiguredWitness ==
    /\ removal.pc = "done"
    /\ ~removal.url
    /\ removal.discord_id = Some("m1")
    /\ removal.result = Some(FALSE)

\* The attempts of the call, and the waits between them
Posts(events) == CountOf(events, PostOutcomes)
Sleeps(events) == CountOf(events, {"sleep"})

\* _retry is over: it has returned or raised
Retried == removal.pc \in {"retried", "done"} /\ removal.retried # None

\* C27: _retry is bounded.  It makes at most 3 attempts; a successful attempt is the last
\* one; it sleeps only between two attempts (never after the last); it returns the first
\* success, or raises the failure of the 3rd attempt after 3 failed attempts; and a call
\* that has started attempting always comes to its end.
C27_RetryBounded ==
    /\ [](LET ev == removal.events
          IN /\ Posts(ev) <= RETRY_ATTEMPTS
             /\ \A k \in 1..Len(ev) : ev[k] = "2xx" => k = Len(ev)
             /\ \A k \in 1..Len(ev) :
                  ev[k] = "sleep" => /\ k > 1 /\ ev[k - 1] \in PostOutcomes \ {"2xx"}
                                     /\ (k < Len(ev) => ev[k + 1] \in PostOutcomes)
             /\ Retried =>
                  /\ ev[Len(ev)] \in PostOutcomes
                  /\ Sleeps(ev) = Posts(ev) - 1
                  /\ removal.retried[1].kind = "return" <=> ev[Len(ev)] = "2xx"
                  /\ removal.retried[1].kind = "raise" =>
                       /\ Posts(ev) = RETRY_ATTEMPTS
                       /\ removal.retried[1].value = ev[Len(ev)])
    /\ (removal.pc = "attempt" ~> removal.pc = "done")

\* _retry has returned the success of its 3rd attempt after a timeout and a refused
\* status, with a sleep after each of the two
C27_Witness ==
    /\ removal.pc = "retried"
    /\ removal.retried[1].kind = "return"
    /\ removal.events = <<"fetchval", "timeout", "sleep", "status", "sleep", "2xx">>

\* _retry has raised the failure of its 3rd attempt
C27_RaisedWitness ==
    /\ removal.pc = "retried"
    /\ removal.retried[1] = [kind |-> "raise", value |-> "error"]
    /\ removal.events = <<"fetchval", "timeout", "sleep", "status", "sleep", "error">>

\* ------------------------------------------------------------------------
\* Extending the deadline
\* ------------------------------------------------------------------------

\* C28: /extendorientation with days on a member whose record is not passed moves the
\* deadline exactly days later and changes nothing else of the record: assigned_at,
\* passed, warned_5d and expired_handled stay, and the poll warns only for a row it
\* fetched with warned_5d unset, so a record warned before the extension is not warned
\* again; on a passed record the command answers that the member has passed and
\* the table is unchanged.  Records of other members are never touched.
C28_ExtendFrame ==
    [][/\ ext_last' # None =>
            LET c == ext_last'[1]
                m == c.member
            IN /\ (m \in DOMAIN orientations /\ ~orientations[m].passed) =>
                    /\ c.reply = "extended"
                    /\ orientations' =
                         [orientations EXCEPT ![m].deadline =
                             Some(orientations[m].deadline[1] + timedelta(c.days, 0, 0, 0))]
               /\ (m \in DOMAIN orientations /\ orientations[m].passed) =>
                    /\ c.reply = "already_passed"
                    /\ orientations' = orientations
               /\ \A k \in (DOMAIN orientations) \ {m} :
                    k \in DOMAIN orientations' /\ orientations'[k] = orientations[k]
       /\ \A m \in Members :
            warn_count'[m] # warn_count[m]
               => \E r \in o_rows : r.discord_id = m /\ ~r.warned_5d]_vars

\* A record already warned has just been extended by one day: its deadline is 15 days
\* after assignment, the latch is still set, and the clock is again 5 days before the
\* deadline
C28_Witness ==
    /\ ext_last = Some([member |-> "m1", days |-> 1, reply |-> "extended"])
    /\ "m1" \in DOMAIN orientations
    /\ orientations["m1"].warned_5d
    /\ warn_count["m1"] = 1
    /\ orientations["m1"].deadline =
         Some(orientations["m1"].assigned_at + timedelta(ORIENTATION_DAYS + 1, 0, 0, 0))
    /\ orientations["m1"].deadline[1] - now = timedelta(5, 0, 0, 0)

\* The command has been refused on a passed record
C28_RefusedWitness ==
    /\ ext_last = Some([member |-> "m1", days |-> 1, reply |-> "already_passed"])
    /\ orientations["m1"].passed

\* ------------------------------------------------------------------------
\* Passing before assignment
\* ------------------------------------------------------------------------

\* C29: /passedorientation on a member without a record creates one with passed, warned_5d
\* and expired_handled all true; on a member with a record it leaves assigned_at and
\* deadline as they are; and a passed record is never reopened: a later grant of the
\* trainee role or a status query leaves passed, the latches, assigned_at and deadline
\* unchanged.
C29_PassBeforeAssignment ==
    [][\A m \in Members :
         /\ (m \notin DOMAIN orientations /\ m \in DOMAIN orientations'
                /\ orientations'[m].passed)
              => /\ orientations'[m].warned_5d
                 /\ orientations'[m].expired_handled
                 /\ orientations'[m].passed_at = Some(now)
         /\ (m \in DOMAIN orientations /\ orientations'[m].passed)
              => /\ orientations'[m].assigned_at = orientations[m].assigned_at
                 /\ orientations'[m].deadline = orientations[m].deadline
         /\ (m \in DOMAIN orientations /\ orientations[m].passed)
              => /\ m \in DOMAIN orientations'
                 /\ orientations'[m].passed
                 /\ orientations'[m].warned_5d
                 /\ orientations'[m].expired_handled
                 /\ orientations'[m].assigned_at = orientations[m].assigned_at
                 /\ orientations'[m].deadline = orientations[m].deadline]_vars

\* m1 was passed when it had no record, and has been granted the trainee role after
\* that: the record is the one the pass created
C29_Witness ==
    /\ "m1" \in DOMAIN orientations
    /\ orientations["m1"].passed
    /\ orientations["m1"].passed_at = Some(orientations["m1"].assigned_at)
    /\ "m1" \in trainee
    /\ Len(role_grants["m1"]) > 0
    /\ role_grants["m1"][1] > orientations["m1"].assigned_at
    /\ orientations["m1"].warned_5d /\ orientations["m1"].expired_handled

\* ------------------------------------------------------------------------
\* The session webhook
\* ------------------------------------------------------------------------

\* C30: POST /roblox with a secret header that differs from the configured secret answers
\* 401, and with a robloxId linked to no member answers 200; in both cases roblox_sessions
\* and roblox_time are unchanged.
C30_WebhookRejects ==
    [][web_last' # None =>
         LET c == web_last'[1]
         IN /\ ~c.key_ok =>
                 /\ c.response = 401
                 /\ roblox_sessions' = roblox_sessions
                 /\ roblox_time' = roblox_time
            /\ (c.key_ok /\ \A m \in DOMAIN roblox_verification :
                                roblox_verification[m] # c.roblox_id) =>
                 /\ c.response = 200
                 /\ roblox_sessions' = roblox_sessions
                 /\ roblox_time' = roblox_time]_vars

\* A "left" with a wrong secret for r1 has been answered 401 while r1's session, opened
\* 25 minutes before, stays open and no time is counted
C30_Witness ==
    /\ web_last = Some([key_ok |-> FALSE, roblox_id |-> "r1", status |-> "left",
                        response |-> 401])
    /\ "r1" \in DOMAIN roblox_sessions
    /\ now - roblox_sessions["r1"] = timedelta(0, 0, 25, 0)
    /\ DOMAIN roblox_time = {}

\* A "joined" with the right secret for r9, linked to nobody, has been answered 200 and
\* has opened no session
C30_UnknownWitness ==
    /\ web_last = Some([key_ok |-> TRUE, roblox_id |-> "r9", status |-> "joined",
                        response |-> 200])
    /\ "r9" \notin DOMAIN roblox_sessions
    /\ "r1" \in DOMAIN roblox_sessions

\* C31: session accounting of the webhook. The open sessions are keyed by the external id,
\* so an id has at most one; an accepted "joined" for a linked id sets that id's start time
\* to now (replacing an open session's start) and leaves the time counters alone; an
\* accepted "left" with an open session deletes the session and adds now - start to the
\* linked member's time counter and to no other; an accepted "left" with no open session
\* changes neither table; and hence no member is ever credited more seconds than have passed
WebRequest == web_last'[1]

C31_SessionAccounting ==
    /\ [][(web_last' # None /\ roblox_handler_lookup(WebRequest.key_ok, WebRequest.roblox_id) # None) =>
            LET rid == WebRequest.roblox_id
                m == DiscordIdOf(rid)[1]
                open == rid \in DOMAIN roblox_sessions
            IN  /\ WebRequest.status = "joined" =>
                        /\ DOMAIN roblox_sessions' = DOMAIN roblox_sessions \cup {rid}
                        /\ roblox_sessions'[rid] = now
                        /\ \A r \in DOMAIN roblox_sessions \ {rid} : roblox_sessions'[r] = roblox_sessions[r]
                        /\ roblox_time' = roblox_time
                /\ (WebRequest.status = "left" /\ open) =>
                        /\ rid \notin DOMAIN roblox_sessions'
                        /\ \A r \in DOMAIN roblox_sessions \ {rid} :
                               r \in DOMAIN roblox_sessions' /\ roblox_sessions'[r] = roblox_sessions[r]
                        /\ GetOr0(roblox_time', m) = GetOr0(roblox_time, m) + (now - roblox_sessions[rid])
                        /\ \A o \in Members \ {m} : GetOr0(roblox_time', o) = GetOr0(roblox_time, o)
                /\ (WebRequest.status = "left" /\ ~open) =>
                        /\ roblox_time' = roblox_time
                        /\ roblox_sessions' = roblox_sessions]_vars
    /\ [](\A m \in Members : GetOr0(roblox_time, m) <= now)

\* a "left" for r1 has closed a session that lasted some time and credited it to m1
C31_SessionAccounting_Witness ==
    /\ web_last # None
    /\ web_last[1].key_ok
    /\ web_last[1].roblox_id = "r1"
    /\ web_last[1].status = "left"
    /\ "r1" \notin DOMAIN roblox_sessions
    /\ GetOr0(roblox_time, "m1") > 0

\* C32: the poll skips a record whose deadline is null.  The step that examines such a row
\* sends no warning, enforces nothing, removes nobody, leaves every orientation record (both
\* latches included) as it was, and the loop goes on: the poll is still in its loop and the
\* rows not yet examined are all still to be examined
C32_NullDeadlineSkipped ==
    [][\A r \in Examined : r.deadline = None =>
         /\ warn_count' = warn_count
         /\ expiry_count' = expiry_count
         /\ guild' = guild
         /\ orientations' = orientations
         /\ opc' = "loop"
         /\ o_rows' = o_rows \ {r}]_vars

\* a poll has passed over the null-deadline row of m2 and then enforced on the overdue m1
C32_NullDeadlineSkipped_Witness ==
    /\ opc = "loop"
    /\ \E r \in o_done : r.discord_id = "m2" /\ r.deadline = None
    /\ \E r \in o_done : r.discord_id = "m1"
    /\ expiry_count["m1"] = 1
    /\ expiry_count["m2"] = 0
    /\ warn_count["m2"] = 0

\* The members classified by the run in progress, and those its strike pass goes through
Classified == MembersOf(w_met) \cup MembersOf(w_not_met) \cup MembersOf(w_zero)
Strikeable == MembersOf(w_not_met) \cup MembersOf(w_zero)

\* C33: the weekly evaluator keeps to the roster it read.  The run classifies exactly the
\* human holders of the department role who are in the guild when it starts, whatever rows
\* the counters hold for others; every strike it inserts and every enforcement it performs
\* is for a member it classified as not met or zero, never for a bot; and its reset empties
\* the counters, the rows of unclassified members included, inserting no strike
C33_RosterOnly ==
    [][/\ (wpc = "idle" /\ wpc' = "report") =>
            /\ Classified' = {m \in guild : m \in DeptRole /\ m \notin Bots}
            /\ \A m \in ((DOMAIN weekly_tasks) \cup (DOMAIN roblox_time)) \ guild : m \notin Classified'
       /\ \A m \in Members : (IssuedTo(m) \/ Enforced(m)) =>
            /\ wpc = "strikes"
            /\ m \in Strikeable
            /\ m \notin Bots
            /\ m \in DeptRole
       /\ (wpc = "strikes" /\ wpc' = "idle") =>
            /\ CountersEmpty(weekly_tasks', roblox_time', roblox_sessions')
            /\ strikes' = strikes
            /\ enforce_count' = enforce_count]_vars

\* the strike pass of a run is over: m2 had left before the run started, their counter row
\* is still stored, the run struck m1 and neither m2 nor the bot has a strike
C33_RosterOnly_Witness ==
    /\ wpc = "strikes" /\ w_queue = {}
    /\ "m2" \notin guild /\ "m2" \notin Classified
    /\ "m2" \in DOMAIN weekly_tasks
    /\ "bot" \in guild
    /\ \E r \in w_issued : r.member = "m1"
    /\ \A r \in strikes : r.member \notin {"m2", "bot"}

\* 00:00 of the reset day of the latest week that was reset
LastResetDay ==
    LET wk == CHOOSE w \in reset_weeks : \A v \in reset_weeks : v <= w
    IN timedelta((wk - 1) * 7 + RESET_WEEKDAY, 0, 0, 0)

\* C34: a session that is open when the weekly reset runs is discarded.  The reset leaves no
\* session open; from then on every open session was started on or after the reset day, a
\* "left" for an id with no open session changes no time counter, and so no member's time
\* counter holds more than the time passed since the reset day: nothing of a session opened
\* before the reset is credited to the new week
C34_ResetDiscardsSessions ==
    /\ [][/\ (wpc = "strikes" /\ wpc' = "idle") => roblox_sessions' = EmptyTable
          /\ (web_last' # None /\ WebRequest.status = "left"
                 /\ WebRequest.roblox_id \notin DOMAIN roblox_sessions) =>
                roblox_time' = roblox_time]_vars
    /\ [](reset_weeks # {} =>
            /\ \A rid \in DOMAIN roblox_sessions : roblox_sessions[rid] >= LastResetDay
            /\ \A m \in Members : GetOr0(roblox_time, m) <= now - LastResetDay)

\* a reset deleted the open session of r1, and the "left" for r1 that came afterwards has
\* created no time counter row for m1
C34_ResetDiscardsSessions_Witness ==
    /\ "r1" \in reset_dropped
    /\ wpc = "idle"
    /\ web_last # None
    /\ web_last[1].roblox_id = "r1"
    /\ web_last[1].status = "left"
    /\ "m1" \notin DOMAIN roblox_time
    /\ "r1" \notin DOMAIN roblox_sessions

\* C35: the 5-day warning and its band.  A poll sends the warning for a member only on
\* examining a row it fetched as non-passed with warned_5d false whose deadline is, at the
\* poll's now, between 4 days 23 hours and 5 days 1 hour away, both ends included; the
\* warned_5d of a record that is not passed is set by no step other than one that sends the
\* warning, so a record whose band was skipped stays unwarned; and the expiry enforcement
\* of an overdue, unhandled row of a member in the guild does not depend on warned_5d
C35_WarningBand ==
    [][\A m \in Members :
         /\ warn_count'[m] # warn_count[m] =>
              \E r \in Examined :
                  /\ r.discord_id = m
                  /\ ~r.passed
                  /\ ~r.warned_5d
                  /\ r.deadline # None
                  /\ r.deadline[1] - o_now >= timedelta(4, 23, 0, 0)
                  /\ r.deadline[1] - o_now <= timedelta(5, 1, 0, 0)
         /\ (m \in DOMAIN orientations /\ ~orientations[m].warned_5d
                /\ orientations'[m].warned_5d /\ ~orientations'[m].passed) =>
              warn_count'[m] = warn_count[m] + 1
         /\ \A r \in Examined :
              (r.discord_id = m /\ Overdue(r) /\ ~r.expired_handled /\ ~r.warned_5d /\ m \in guild) =>
                  expiry_count'[m] = expiry_count[m] + 1]_vars

\* the clock went past the band without a poll inside it: m1 was enforced on expiry, was
\* never warned, and the record still has warned_5d false
C35_WarningBand_Witness ==
    /\ "m1" \in DOMAIN orientations
    /\ expiry_count["m1"] = 1
    /\ warn_count["m1"] = 0
    /\ ~orientations["m1"].warned_5d
    /\ ~orientations["m1"].passed
    /\ orientations["m1"].expired_handled

\* a poll has sent the warning at the near end of the band, 4 days 23 hours before the
\* deadline
C35_BandEdgeWitness ==
    /\ warn_count["m1"] = 1
    /\ opc = "loop"
    /\ \E r \in o_done : r.discord_id = "m1" /\ ~r.warned_5d /\ r.deadline # None
                            /\ r.deadline[1] - o_now = timedelta(4, 23, 0, 0)

\* C36: however /extendorientation and a running poll interleave, the poll enforces expiry
\* on a member only when the deadline stored in the member's record at that moment is not
\* in the future
C36_NoEnforcementBeforeDeadline ==
    [][\A m \in Members :
         expiry_count'[m] # expiry_count[m] =>
            /\ m \in DOMAIN orientations
            /\ orientations[m].deadline # None
            /\ orientations[m].deadline[1] <= now]_vars

\* A step in which the poll carries out the expiry enforcement on m
Expired(m) == expiry_count'[m] # expiry_count[m]

\* C37: removal safety.  A member is enforced on for strikes only in a step that inserted a
\* strike for that member and left the member with at least 3 active strikes; a member is
\* enforced on for expiry only in a poll step that examines a row of that member fetched as
\* non-passed and not yet handled, with a deadline not after the poll's now; a member
\* disappears from the guild only in such a step; and a strike removal, a webhook event,
\* an orientation command, an excuse command, the weekly reset and the passing of time
\* enforce on nobody and remove nobody
C37_RemovalSafety ==
    [][/\ \A m \in Members :
            /\ Enforced(m) =>
                 /\ IssuedTo(m)
                 /\ ActiveAt(strikes', m, now) >= STRIKE_LIMIT
            /\ Expired(m) =>
                 \E r \in Examined :
                     /\ r.discord_id = m
                     /\ ~r.passed
                     /\ ~r.expired_handled
                     /\ r.deadline # None
                     /\ r.deadline[1] <= o_now
                     /\ o_now <= now
            /\ (m \in guild /\ m \notin guild') => (Enforced(m) \/ Expired(m))
       /\ (\/ rm_last' # None
           \/ web_last' # None
           \/ ext_last' # None
           \/ activity_excuses' # activity_excuses
           \/ now' # now
           \/ (wpc = "strikes" /\ wpc' = "idle")) =>
            /\ guild' = guild
            /\ enforce_count' = enforce_count
            /\ expiry_count' = expiry_count]_vars

\* both removals have happened: m1 was kicked on a third active strike and m2 on expiry,
\* and the bot, which neither applies to, is still in the guild
C37_RemovalSafety_Witness ==
    /\ enforce_count["m1"] = 1 /\ "m1" \notin guild
    /\ expiry_count["m2"] = 1 /\ "m2" \notin guild
    /\ "bot" \in guild
    /\ reset_weeks # {}

\* ------------------------------------------------------------------------
\* The task logs
\* ------------------------------------------------------------------------

\* C38: counter and weekly log agree.  In every state each member's tasks_completed is
\* not negative and equals the number of that member's weekly_task_logs rows, a member
\* without a counter row having none; and a /removelastlog for a member with no weekly row
\* answers that there is none and changes neither table nor the permanent log
C38_CounterMatchesLog ==
    /\ [](\A m \in Members :
            /\ GetCount(weekly_tasks, m) >= 0
            /\ GetCount(weekly_tasks, m) = Len(weekly_task_logs[m])
            /\ m \notin DOMAIN weekly_tasks => weekly_task_logs[m] = <<>>)
    /\ [][(log_last' # log_last /\ weekly_task_logs[log_last'[1].member] = <<>>) =>
            /\ log_last'[1].reply = "no_logs"
            /\ UNCHANGED <<weekly_tasks, weekly_task_logs, task_logs>>]_vars

\* after an addition of two, a log and a removal in the week after a reset, m1's counter
\* is 2 with two weekly rows, and m2, asked for a removal, has neither counter nor row
C38_CounterMatchesLog_Witness ==
    /\ reset_weeks # {}
    /\ GetCount(weekly_tasks, "m1") = 2
    /\ Len(weekly_task_logs["m1"]) = 2
    /\ Len(task_logs["m1"]) > 3
    /\ log_last # None
    /\ log_last[1].member = "m2"
    /\ log_last[1].reply = "no_logs"
    /\ "m2" \notin DOMAIN weekly_tasks

\* The sequence numbers of the rows of one type
NumbersOf(rows, task_type) ==
    {rows[i].sequence_no : i \in {j \in 1..Len(rows) : rows[j].task_type = task_type}}

\* C39: test numbering.  In every state, for each member and each numbered task type, the
\* task_logs rows of that type carry pairwise distinct sequence numbers which are exactly
\* 1..n, n being the number of such rows; rows of the other task types carry none
C39_TestNumbering ==
    \A m \in Members :
        /\ \A task_type \in TEST_TYPES :
             /\ NumbersOf(task_logs[m], task_type) =
                    {Some(n) : n \in 1..Cardinality({i \in 1..Len(task_logs[m]) :
                                                         task_logs[m][i].task_type = task_type})}
             /\ \A i, j \in 1..Len(task_logs[m]) :
                    (i # j /\ task_logs[m][i].task_type = task_type
                           /\ task_logs[m][j].task_type = task_type)
                       => task_logs[m][i].sequence_no # task_logs[m][j].sequence_no
        /\ \A i \in 1..Len(task_logs[m]) :
             task_logs[m][i].task_type \notin TEST_TYPES => task_logs[m][i].sequence_no = None

\* m1 has numbered and unnumbered rows, logged and added on both sides of a reset and of a
\* removal: three Cross-Testing rows, of which the weekly log holds only the third
C39_TestNumbering_Witness ==
    /\ reset_weeks # {}
    /\ log_last # None /\ log_last[1].reply = "removed"
    /\ NumbersOf(task_logs["m1"], "Cross-Testing") = {Some(1), Some(2), Some(3)}
    /\ \E i \in 1..Len(task_logs["m1"]) : task_logs["m1"][i].task_type = "SCP Interviews"
    /\ NumbersOf(weekly_task_logs["m1"], "Cross-Testing") = {Some(3)}
====
